---- MODULE Spec2Model ----
(***************************************************************************)
(* A model of the configuration migration tools of auto-claude-code:       *)
(* BackupManager (tools/migration/backup_manager.py), UpgradeAssistant     *)
(* (tools/migration/upgrade_assistant.py) and the parts of VersionManager  *)
(* (tools/migration/version_manager.py) they call.                         *)
(*                                                                         *)
(* The file system is the state: the configuration tree (relative path ->  *)
(* content), the backup store .claude/backups (backup name -> archive) and *)
(* the wall clock.  A path is the sequence of its components; a text is    *)
(* the sequence of its character codes, so that Python's str comparison is *)
(* the lexicographic order of the sequences.                               *)
(***************************************************************************)
EXTENDS Integers, Sequences, FiniteSets, Bags, TLC

VARIABLES
    tree,       \* the configuration tree: [existing relative paths -> content]
    store,      \* .claude/backups: [backup names -> archive]
    now,        \* the wall clock, in ticks
    enabled,    \* BaseMigrator.backup_enabled, fixed at construction
    results,    \* BackupManager.results: the statuses logged by add_result
    calls,      \* number of operations performed so far
    last,       \* what the last operation was given and what it returned
    snap,       \* the last backup the user took, and the tree as it was then
    edits       \* number of edits by the user so far

vars == <<tree, store, now, enabled, results, calls, last, snap, edits>>

(***************************************************************************)
(* Bounds of the model.                                                    *)
(***************************************************************************)
\* clock ticks per second: backup names have a resolution of one second,
\* manifest timestamps the resolution of the clock
TicksPerSecond == 1
\* the clock stops advancing at this tick
MaxClock == 1
\* operations performed in one behaviour
MaxCalls == 2
\* edits of the tree by the user in one behaviour
MaxEdits == 1
\* largest keep_count passed to cleanup_old_backups
MaxKeep == 3

(***************************************************************************)
(* Functions as finite maps.                                               *)
(***************************************************************************)
Put(f, k, v) == [x \in (DOMAIN f) \cup {k} |-> IF x = k THEN v ELSE f[x]]

Drop(f, k) == [x \in (DOMAIN f) \ {k} |-> f[x]]

EmptyMap == [x \in {} |-> 0]

(***************************************************************************)
(* Texts (sequences of character codes) and file contents.                 *)
(***************************************************************************)
Str_A == <<65>>

Str_B == <<66>>

Str_1_0_0 == <<49, 46, 48, 46, 48>>

Str_1_1_0 == <<49, 46, 49, 46, 48>>

Str_1_2_0 == <<49, 46, 50, 46, 48>>

Str_2_0_0 == <<50, 46, 48, 46, 48>>

Str_bad == <<98, 97, 100>>

\* Python's str comparison a < b: lexicographic on code points
RECURSIVE StrLess(_, _)
StrLess(a, b) ==
    IF Len(b) = 0 THEN FALSE
    ELSE IF Len(a) = 0 THEN TRUE
    ELSE IF a[1] # b[1] THEN a[1] < b[1]
    ELSE StrLess(Tail(a), Tail(b))

\* Python's a >= b on str
StrGE(a, b) == ~StrLess(a, b)

\* a text file holding the text s
Text(s) == [k |-> "text", s |-> s, updated_at |-> 0, checksum |-> <<>>]

\* the metadata record written by save_metadata: version, updated_at, checksum
Meta(v, upd, ck) == [k |-> "meta", s |-> v, updated_at |-> upd, checksum |-> ck]

(***************************************************************************)
(* The paths of the model's universe.                                      *)
(***************************************************************************)
P_CLAUDE == <<"CLAUDE.md">>

P_VERSION == <<".version">>

P_METADATA == <<".metadata.json">>

P_SETTINGS == <<".claude", "settings.json">>

P_EXAMPLE == <<".claude", "settings.local.json.example">>

P_LOCAL == <<".claude", "settings.local.json">>

P_CMD == <<".claude", "commands", "a.md">>

P_CMD_SUB == <<".claude", "commands", "sub", "b.md">>

P_NESTED == <<"sub", ".claude", "commands", "c.md">>

P_NOTES == <<"notes.txt">>

\* the order in which a directory scan yields the paths
PathOrder ==
    << P_CLAUDE, P_SETTINGS, P_EXAMPLE, P_LOCAL, P_CMD, P_CMD_SUB, P_NESTED,
       P_VERSION, P_METADATA, P_NOTES >>

Paths == {PathOrder[i] : i \in 1..Len(PathOrder)}

\* the elements of the set S as a list, in scan order
ListOf(S) == SelectSeq(PathOrder, LAMBDA p : p \in S)

(***************************************************************************)
(* Globbing: fnmatch on one component, Path.glob, Path.rglob and           *)
(* PurePath.match on the components.                                       *)
(***************************************************************************)
\* the component names of the universe that end in ".md"
MdNames == {"CLAUDE.md", "a.md", "b.md", "c.md"}

\* fnmatch(name, pat) for the component patterns the program uses
fnmatch(name, pat) ==
    CASE pat = "*" -> TRUE
      [] pat = "**" -> TRUE
      [] pat = "*.md" -> name \in MdNames
      [] pat = "*.pyc" -> FALSE
      [] OTHER -> name = pat

\* str.startswith on one component name
NameStartsWith(name, prefix) ==
    \/ name = prefix
    \/ prefix = "settings.local.json" /\ name = "settings.local.json.example"

\* the last n components of path p match the n components of pat
SuffixMatches(p, pat) ==
    /\ Len(pat) <= Len(p)
    /\ \A i \in 1..Len(pat) : fnmatch(p[Len(p) - Len(pat) + i], pat[i])

\* config_path.glob(pat) for a pattern without "**": the files of the tree
\* whose components match the pattern's one by one
glob(tr, pat) == {p \in DOMAIN tr : Len(p) = Len(pat) /\ SuffixMatches(p, pat)}

\* config_path.rglob(pat), that is glob("**/" + pat): the pattern may match
\* below any directory of the tree
rglob(tr, pat) == {p \in DOMAIN tr : SuffixMatches(p, pat)}

\* pattern.replace("**/", ""): every "**" component that a "/" follows goes
ReplaceStarStarSlash(pat) ==
    SelectSeq(SubSeq(pat, 1, Len(pat) - 1), LAMBDA c : c # "**")
        \o <<pat[Len(pat)]>>

backup_patterns ==
    << <<"CLAUDE.md">>,
       <<".mcp.json">>,
       <<".claude", "settings.json">>,
       <<".claude", "settings.local.json.example">>,
       <<".claude", "commands", "**", "*.md">>,
       <<".claude", "personas", "**", "*.md">>,
       <<".version">>,
       <<".metadata.json">> >>

exclude_patterns ==
    << <<".claude", "backups", "**">>,
       <<".claude", "settings.local.json">>,
       <<".claude", ".cache", "**">>,
       <<"**", "__pycache__", "**">>,
       <<"**", "*.pyc">>,
       <<"**", "node_modules", "**">> >>

HasStarStar(pat) == \E i \in 1..Len(pat) : pat[i] = "**"

get_files_by_pattern(tr, pat) ==
    IF HasStarStar(pat) THEN rglob(tr, ReplaceStarStarSlash(pat))
    ELSE glob(tr, pat)

\* rel_path.match(pat): PurePath.match of a relative pattern matches from the
\* right, and "**" matches one component like "*"
PurePathMatch(p, pat) == SuffixMatches(p, pat)

\* str(rel_path).startswith(pat.replace("**", ""))
StrStartsWithPattern(p, pat) ==
    LET n == Len(pat) IN
    IF pat[1] = "**" THEN FALSE           \* the prefix starts with "/"
    ELSE IF pat[n] = "**"                 \* the prefix is "a/b/"
    THEN Len(p) >= n /\ SubSeq(p, 1, n - 1) = SubSeq(pat, 1, n - 1)
    ELSE /\ Len(p) >= n                   \* the prefix is "a/b"
         /\ SubSeq(p, 1, n - 1) = SubSeq(pat, 1, n - 1)
         /\ NameStartsWith(p[n], pat[n])

should_exclude_file(p) ==
    \E i \in 1..Len(exclude_patterns) :
        \/ PurePathMatch(p, exclude_patterns[i])
        \/ StrStartsWithPattern(p, exclude_patterns[i])

\* the files one pattern contributes to the archive, in the order written
FilesOfPattern(tr, pat) ==
    ListOf({p \in get_files_by_pattern(tr, pat) : ~should_exclude_file(p)})

\* the loop of create_backup over backup_patterns: the names written to the
\* archive, in order
RECURSIVE FilesFrom(_, _)
FilesFrom(tr, i) ==
    IF i > Len(backup_patterns) THEN <<>>
    ELSE FilesOfPattern(tr, backup_patterns[i]) \o FilesFrom(tr, i + 1)

\* the tree in which every path of the universe exists
EveryPath == [p \in Paths |-> 0]

\* what the loop writes from the tree holding every path
ArchivedPaths == FilesFrom(EveryPath, 1)

\* what the loop writes from the tree tr: whether a path matches a pattern
\* does not depend on the other files, so these are the names written from
\* the tree holding every path, without those that tr does not hold
FilesToBackUp(tr) == SelectSeq(ArchivedPaths, LAMBDA p : p \in DOMAIN tr)

(***************************************************************************)
(* Backup names and archives.                                              *)
(***************************************************************************)
\* timestamp.strftime("backup_%Y%m%d_%H%M%S"): the clock cut to the second
BackupName(t) == <<"backup", t \div TicksPerSecond>>

ImportedName(t) == <<"imported", t \div TicksPerSecond>>

NoName == <<"none", 0>>

\* the content of the members names[1..n] as read from the tree
DataOf(tr, names, n) == [p \in {names[i] : i \in 1..n} |-> tr[p]]

\* the archive create_backup closes: the members and the manifest
FullArchive(tr, names, description, t) ==
    [ zip |-> TRUE, names |-> names, data |-> DataOf(tr, names, Len(names)),
      manifest |-> TRUE, timestamp |-> t, files_count |-> Len(names),
      description |-> description, mtime |-> t ]

\* the archive on disk when a write fails after n members: ZipFile.__exit__
\* closes it without a manifest
PartialArchive(tr, names, n, t) ==
    [ zip |-> TRUE, names |-> SubSeq(names, 1, n), data |-> DataOf(tr, names, n),
      manifest |-> FALSE, timestamp |-> 0, files_count |-> 0,
      description |-> "", mtime |-> t ]

\* a failure handler that leaves the partial archive where it is
CleanupFailedBackup_Kept(st, name) == st

\* except: if backup_path.exists(): backup_path.unlink()
CleanupFailedBackup(st, name) == Drop(st, name)

\* create_backup at clock reading t.  fault = 0: every write succeeds;
\* fault = k > 0: the k-th write to the archive raises (k - 1 members are
\* in the archive by then).
create_backup(tr, st, res, t, description, fault) ==
    LET backup_name == BackupName(t)
        names == FilesToBackUp(tr)
    IN  IF fault = 0
        THEN [ ok |-> TRUE, name |-> backup_name,
               store |-> Put(st, backup_name,
                             FullArchive(tr, names, description, t)),
               results |-> Append(res, "SUCCESS") ]
        ELSE [ ok |-> FALSE, name |-> backup_name,
               store |-> CleanupFailedBackup(
                           Put(st, backup_name,
                               PartialArchive(tr, names, fault - 1, t)),
                           backup_name),
               results |-> Append(res, "FAILED") ]

(***************************************************************************)
(* restore_backup.                                                         *)
(***************************************************************************)
\* restore_backup without the check of confirm
RestoreRefusal_Unchecked(exists, confirm) ==
    IF ~exists THEN "not_found" ELSE "none"

\* the two early returns of restore_backup: the archive must exist and the
\* caller must have confirmed
RestoreRefusal(exists, confirm) ==
    IF ~exists THEN "not_found"
    ELSE IF ~confirm THEN "unconfirmed"
    ELSE "none"

\* the tree after the members names[1..n] of archive a were extracted: each
\* overwrites (or creates) the file of its name
Extract(tr, a, n) ==
    LET done == {a.names[i] : i \in 1..n}
    IN  [p \in (DOMAIN tr) \cup done |-> IF p \in done THEN a.data[p] ELSE tr[p]]

\* the (name, content) pairs written by extracting names[1..n]
Extracted(a, n) == [i \in 1..n |-> <<a.names[i], a.data[a.names[i]]>>]

\* restore_backup at clock reading t.  safetyFault is create_backup's fault for
\* the safety backup; extractFault = k > 0 makes the write of the k-th member
\* raise (when the archive has that many members).
restore_backup(tr, st, res, t, backup_name, confirm, safetyFault, extractFault) ==
    LET refusal == RestoreRefusal(backup_name \in DOMAIN st, confirm)
        safety == create_backup(tr, st, res, t, "pre-restore", safetyFault)
        unchanged == [ status |-> "FAILED", tree |-> tr, store |-> st,
                       results |-> res, backup_path |-> NoName,
                       extracted |-> <<>>, safety |-> NoName,
                       refusal |-> refusal ]
    IN  IF refusal # "none" THEN unchanged
        ELSE IF ~safety.ok
        THEN [unchanged EXCEPT !.store = safety.store, !.results = safety.results]
        ELSE IF backup_name \notin DOMAIN safety.store
                \/ ~safety.store[backup_name].zip
        THEN [unchanged EXCEPT !.store = safety.store,
                               !.results = safety.results,
                               !.safety = safety.name]
        ELSE LET a == safety.store[backup_name]
                 fails == extractFault \in 1..Len(a.names)
                 n == IF fails THEN extractFault - 1 ELSE Len(a.names)
             IN  [ status |-> IF fails THEN "FAILED" ELSE "SUCCESS",
                   tree |-> Extract(tr, a, n),
                   store |-> safety.store,
                   results |-> safety.results,
                   backup_path |-> IF fails THEN NoName ELSE safety.name,
                   extracted |-> Extracted(a, n),
                   safety |-> safety.name,
                   refusal |-> refusal ]

(***************************************************************************)
(* VersionManager: parse_version, str(Version), the checksum, the metadata *)
(***************************************************************************)
IsDigit(c) == c \in 48..57

\* [a-zA-Z0-9\-\.]
IsTagChar(c) == IsDigit(c) \/ c \in 65..90 \/ c \in 97..122 \/ c = 45 \/ c = 46

IsSpace(c) == c \in {9, 10, 11, 12, 13, 32}

RECURSIVE LStrip(_)
LStrip(s) == IF Len(s) > 0 /\ IsSpace(s[1]) THEN LStrip(Tail(s)) ELSE s

RECURSIVE RStrip(_)
RStrip(s) ==
    IF Len(s) > 0 /\ IsSpace(s[Len(s)]) THEN RStrip(SubSeq(s, 1, Len(s) - 1))
    ELSE s

\* str.strip()
Strip(s) == RStrip(LStrip(s))

\* the length of the longest prefix of s made of digits: what "\d+" takes
RECURSIVE DigitRun(_)
DigitRun(s) == IF Len(s) > 0 /\ IsDigit(s[1]) THEN 1 + DigitRun(Tail(s)) ELSE 0

\* the length of the longest prefix of s that "[a-zA-Z0-9\-\.]+" takes
RECURSIVE TagRun(_)
TagRun(s) == IF Len(s) > 0 /\ IsTagChar(s[1]) THEN 1 + TagRun(Tail(s)) ELSE 0

\* int() of a run of digits
RECURSIVE ToInt(_)
ToInt(ds) ==
    IF Len(ds) = 0 THEN 0
    ELSE 10 * ToInt(SubSeq(ds, 1, Len(ds) - 1)) + (ds[Len(ds)] - 48)

\* str() of a natural number
RECURSIVE IntToStr(_)
IntToStr(n) ==
    IF n < 10 THEN <<48 + n>> ELSE IntToStr(n \div 10) \o <<48 + (n % 10)>>

NoVersion == [ok |-> FALSE, major |-> 0, minor |-> 0, patch |-> 0,
              pre_release |-> <<>>, build_metadata |-> <<>>]

\* one "(\d+)" of the pattern, then the separator sep (0: none is required)
\* [len |-> 0] when the text does not start that way
NumberThen(s, sep) ==
    LET n == DigitRun(s)
    IN  IF n = 0 THEN [len |-> 0, value |-> 0]
        ELSE IF sep = 0 THEN [len |-> n, value |-> ToInt(SubSeq(s, 1, n))]
        ELSE IF Len(s) > n /\ s[n + 1] = sep
        THEN [len |-> n + 1, value |-> ToInt(SubSeq(s, 1, n))]
        ELSE [len |-> 0, value |-> 0]

\* "(?:-([a-zA-Z0-9\-\.]+))?(?:\+([a-zA-Z0-9\-\.]+))?$" on the rest r
ParseTags(r) ==
    LET hasPre == Len(r) > 0 /\ r[1] = 45
        r1 == IF hasPre THEN Tail(r) ELSE r
        np == IF hasPre THEN TagRun(r1) ELSE 0
        r2 == SubSeq(r1, np + 1, Len(r1))
        hasBuild == Len(r2) > 0 /\ r2[1] = 43
        r3 == IF hasBuild THEN Tail(r2) ELSE r2
        nb == IF hasBuild THEN TagRun(r3) ELSE 0
    IN  [ ok |-> /\ hasPre => np > 0
                 /\ hasBuild => nb > 0
                 /\ Len(r3) = nb,
          pre_release |-> SubSeq(r1, 1, np),
          build_metadata |-> SubSeq(r3, 1, nb) ]

\* parse_version: ok is FALSE where the code raises ValueError
parse_version(version_string) ==
    LET s == Strip(version_string)
        a == NumberThen(s, 46)
        sb == SubSeq(s, a.len + 1, Len(s))
        b == NumberThen(sb, 46)
        sc == SubSeq(sb, b.len + 1, Len(sb))
        c == NumberThen(sc, 0)
        tags == ParseTags(SubSeq(sc, c.len + 1, Len(sc)))
    IN  IF a.len = 0 \/ b.len = 0 \/ c.len = 0 \/ ~tags.ok THEN NoVersion
        ELSE [ ok |-> TRUE, major |-> a.value, minor |-> b.value,
               patch |-> c.value, pre_release |-> tags.pre_release,
               build_metadata |-> tags.build_metadata ]

\* a __str__ that leaves the build metadata out
VersionStr_NoBuild(v) ==
    IntToStr(v.major) \o <<46>> \o IntToStr(v.minor) \o <<46>> \o IntToStr(v.patch)
        \o (IF Len(v.pre_release) > 0 THEN <<45>> \o v.pre_release ELSE <<>>)

\* Version.__str__
VersionStr(v) ==
    IntToStr(v.major) \o <<46>> \o IntToStr(v.minor) \o <<46>> \o IntToStr(v.patch)
        \o (IF Len(v.pre_release) > 0 THEN <<45>> \o v.pre_release ELSE <<>>)
        \o (IF Len(v.build_metadata) > 0 THEN <<43>> \o v.build_metadata ELSE <<>>)

\* config_files as calculate_config_checksum starts it
ChecksumFiles == << <<"CLAUDE.md">>, <<"settings.json">> >>

\* the command files at the root of the configuration
P_ROOT_CMD == <<"commands", "a.md">>

P_ROOT_CMD_SUB == <<"commands", "sub", "b.md">>

\* the order in which commands_dir.rglob yields them in a run that is not
\* told another order
CommandScan == <<P_ROOT_CMD_SUB, P_ROOT_CMD>>

\* commands_dir.rglob("*.md"), as a set
CommandFiles(tr) ==
    { p \in DOMAIN tr : Len(p) > 1 /\ p[1] = "commands" /\ p[Len(p)] \in MdNames }

\* the characters of a path component
NameBytes(n) ==
    CASE n = "CLAUDE.md" -> <<67, 76, 65, 85, 68, 69, 46, 109, 100>>
      [] n = "settings.json" ->
             <<115, 101, 116, 116, 105, 110, 103, 115, 46, 106, 115, 111, 110>>
      [] n = "commands" -> <<99, 111, 109, 109, 97, 110, 100, 115>>
      [] n = "sub" -> <<115, 117, 98>>
      [] n = "a.md" -> <<97, 46, 109, 100>>
      [] n = "b.md" -> <<98, 46, 109, 100>>

\* str(path.relative_to(config_path)).encode('utf-8')
RECURSIVE PathBytes(_)
PathBytes(p) ==
    IF Len(p) = 1 THEN NameBytes(p[1])
    ELSE NameBytes(p[1]) \o <<47>> \o PathBytes(Tail(p))

\* read_bytes of a file: a text file holds its text, a settings file the
\* JSON object {"version": "..."}
FileBytes(c) ==
    IF c.k = "settings"
    THEN <<123, 34, 118, 101, 114, 115, 105, 111, 110, 34, 58, 32, 34>>
         \o c.s \o <<34, 125>>
    ELSE c.s

\* config_files.sort(): the paths ordered as Python orders their strings
RECURSIVE InsertPath(_, _)
InsertPath(p, sorted) ==
    IF Len(sorted) = 0 THEN <<p>>
    ELSE IF StrLess(PathBytes(p), PathBytes(Head(sorted))) THEN <<p>> \o sorted
    ELSE <<Head(sorted)>> \o InsertPath(p, Tail(sorted))

RECURSIVE SortPaths(_)
SortPaths(ps) ==
    IF Len(ps) = 0 THEN <<>>
    ELSE InsertPath(ps[Len(ps)], SortPaths(SubSeq(ps, 1, Len(ps) - 1)))

\* the loop of hasher.update calls over the files from index i on: the
\* bytes fed to the hasher, path then content, for each file that exists
RECURSIVE HasherInput(_, _, _)
HasherInput(tr, files, i) ==
    IF i > Len(files) THEN <<>>
    ELSE (IF files[i] \in DOMAIN tr
          THEN PathBytes(files[i]) \o FileBytes(tr[files[i]])
          ELSE <<>>) \o HasherInput(tr, files, i + 1)

\* calculate_config_checksum when rglob yields the command files in the
\* order found: the bytes fed to the hasher
config_checksum(tr, found) == HasherInput(tr, SortPaths(ChecksumFiles \o found), 1)

\* calculate_config_checksum
calculate_config_checksum(tr) ==
    config_checksum(tr, SelectSeq(CommandScan, LAMBDA p : p \in CommandFiles(tr)))

\* load_metadata returns a record only for a file that parses as one
load_metadata_ok(tr) == P_METADATA \in DOMAIN tr /\ tr[P_METADATA].k = "meta"

(***************************************************************************)
(* UpgradeAssistant.perform_upgrade.                                       *)
(***************************************************************************)
Step(description, action, target_path, content) ==
    [ description |-> description, action |-> action,
      target_path |-> target_path, content |-> content ]

\* _generate_upgrade_steps: the feature steps are gated by str comparisons
generate_upgrade_steps(target_version) ==
    << Step("Update version metadata", "create", P_VERSION, target_version),
       Step("Update configuration metadata", "modify", P_METADATA, <<>>) >>
    \o (IF StrGE(target_version, Str_1_1_0)
        THEN <<Step("Add persona support to configuration", "modify", P_CLAUDE, <<>>)>>
        ELSE <<>>)
    \o (IF StrGE(target_version, Str_1_2_0)
        THEN <<Step("Enhance security settings", "modify", P_SETTINGS, <<>>)>>
        ELSE <<>>)

\* whether _execute_upgrade_step touches the file system for this step: a
\* create step with content, a modify step whose file exists
StepWrites(tr, step) ==
    \/ step.action = "create" /\ Len(step.content) > 0
    \/ step.action = "modify" /\ step.target_path \in DOMAIN tr

\* _execute_upgrade_step without failure: create writes the content, modify
\* writes back what it read
execute_upgrade_step(tr, step) ==
    IF ~StepWrites(tr, step) THEN tr
    ELSE IF step.action = "create"
    THEN Put(tr, step.target_path, Text(step.content))
    ELSE Put(tr, step.target_path, tr[step.target_path])

\* the loop over upgrade_steps from step i on; step failAt raises, before it
\* changed its file, if it touches the file system.  failed is the index of the step that raised
\* (0: none), affected the files the steps returned.
RECURSIVE RunSteps(_, _, _, _)
RunSteps(tr, steps, i, failAt) ==
    IF i > Len(steps) THEN [tree |-> tr, failed |-> 0, affected |-> <<>>]
    ELSE IF i = failAt /\ StepWrites(tr, steps[i])
    THEN [tree |-> tr, failed |-> i, affected |-> <<>>]
    ELSE LET rest == RunSteps(execute_upgrade_step(tr, steps[i]), steps, i + 1,
                              failAt)
         IN  [ rest EXCEPT !.affected =
                   (IF StepWrites(tr, steps[i]) THEN <<steps[i].target_path>>
                    ELSE <<>>) \o rest.affected ]

\* the status perform_upgrade returns after a step raised, given what the
\* rollback's restore_backup returned ("NONE": no backup, no rollback)
StatusAfterStepFailure(restore_status) == "FAILED"

\* the tree after save_version and the metadata refresh
persist_version(tr, version, t) ==
    LET saved == Put(tr, P_VERSION, Text(VersionStr(version)))
    IN  IF load_metadata_ok(saved)
        THEN Put(saved, P_METADATA,
                 Meta(VersionStr(version), t, calculate_config_checksum(saved)))
        ELSE saved

\* perform_upgrade.  t is the clock when the pre-upgrade backup is taken, t2
\* the clock when the rollback's safety backup is taken; backupFault,
\* safetyFault and extractFault are the faults of create_backup and of the
\* rollback's restore_backup; step failAt raises.
perform_upgrade(tr, st, res, en, t, t2, target_version, create_bk, backupFault, failAt, safetyFault, extractFault) ==
    LET takes == create_bk /\ en
        b == create_backup(tr, st, res, t, "pre-upgrade", backupFault)
        st1 == IF takes THEN b.store ELSE st
        res1 == IF takes THEN b.results ELSE res
        has == takes /\ b.ok
        run == RunSteps(tr, generate_upgrade_steps(target_version), 1, failAt)
        rb == restore_backup(run.tree, st1, res1, t2, b.name, TRUE,
                             safetyFault, extractFault)
        new_version == parse_version(target_version)
        out == [ status |-> "FAILED", tree |-> tr, store |-> st1,
                 results |-> res1, backup_path |-> NoName, backup_name |-> NoName,
                 step_failed |-> 0, restore_status |-> "NONE",
                 files_affected |-> <<>>, safety |-> NoName, extracted |-> <<>> ]
    IN  IF takes /\ ~b.ok THEN out
        ELSE IF run.failed # 0
        THEN IF has
             THEN [ out EXCEPT
                      !.status = StatusAfterStepFailure(rb.status),
                      !.tree = rb.tree, !.store = rb.store,
                      !.results = rb.results,
                      !.backup_path = b.name, !.backup_name = b.name,
                      !.step_failed = run.failed,
                      !.restore_status = rb.status,
                      !.safety = rb.safety, !.extracted = rb.extracted ]
             ELSE [ out EXCEPT
                      !.status = StatusAfterStepFailure("NONE"),
                      !.tree = run.tree, !.step_failed = run.failed ]
        ELSE IF ~new_version.ok
        THEN [ out EXCEPT !.tree = run.tree,
                          !.backup_name = IF has THEN b.name ELSE NoName ]
        ELSE [ out EXCEPT
                 !.status = "SUCCESS",
                 !.tree = persist_version(run.tree, new_version, t2),
                 !.backup_path = IF has THEN b.name ELSE NoName,
                 !.backup_name = IF has THEN b.name ELSE NoName,
                 !.files_affected = run.affected ]

(***************************************************************************)
(* list_backups, delete_backup, cleanup_old_backups, import_backup.        *)
(***************************************************************************)
\* _get_backup_info: the timestamp of the manifest, else the file's mtime
InfoTimestamp(a) == IF a.manifest THEN a.timestamp ELSE a.mtime

\* a scan that takes every file of the directory for an archive
Listed_Unfiltered(st) == DOMAIN st

\* the archives _get_backup_info can read
Listed(st) == {n \in DOMAIN st : st[n].zip}

\* all the orders of the set S
Orders(S) ==
    {f \in [1..Cardinality(S) -> S] : \A i, j \in 1..Cardinality(S) :
                                          i # j => f[i] # f[j]}

\* list_backups sorting oldest first
list_backups_OldestFirst(st) ==
    {f \in Orders(Listed(st)) :
        \A i \in 1..(Len(f) - 1) :
            InfoTimestamp(st[f[i]]) <= InfoTimestamp(st[f[i + 1]])}

\* list_backups: the readable archives, newest first; archives of equal
\* timestamp come in the order the directory scan yields them, which is any
list_backups(st) ==
    {f \in Orders(Listed(st)) :
        \A i \in 1..(Len(f) - 1) :
            InfoTimestamp(st[f[i]]) >= InfoTimestamp(st[f[i + 1]])}

\* delete_backup: unlink the archive if it exists
delete_backup(st, name) == IF name \in DOMAIN st THEN Drop(st, name) ELSE st

\* the loop of cleanup_old_backups over backups[keep_count:], from index i
RECURSIVE DeleteFrom(_, _, _)
DeleteFrom(st, backups, i) ==
    IF i > Len(backups) THEN [store |-> st, deleted_count |-> 0]
    ELSE LET rest == DeleteFrom(delete_backup(st, backups[i]), backups, i + 1)
         IN  [ rest EXCEPT !.deleted_count =
                   rest.deleted_count + (IF backups[i] \in DOMAIN st THEN 1 ELSE 0) ]

\* cleanup_old_backups(keep_count), backups being what list_backups returned
cleanup_old_backups(st, backups, keep_count) ==
    IF Len(backups) <= keep_count THEN [store |-> st, deleted_count |-> 0]
    ELSE DeleteFrom(st, backups, keep_count + 1)

\* import_backup of the file `file` under the name `name`: copy, then read
\* the copy's info; a copy that cannot be read is removed and the call raises
import_backup(st, name, file) ==
    LET copied == Put(st, name, file)
    IN  IF file.zip THEN [ok |-> TRUE, store |-> copied]
        ELSE [ok |-> FALSE, store |-> Drop(copied, name)]

(***************************************************************************)
(* The initial states: a configuration directory as the tools find it.     *)
(***************************************************************************)
\* a complete configuration at version 1.0.0
TreeFull ==
    [p \in Paths |->
        IF p = P_VERSION THEN Text(Str_1_0_0)
        ELSE IF p = P_METADATA THEN Meta(Str_1_0_0, 0, <<>>)
        ELSE Text(Str_A)]

\* a configuration without version marker and metadata
TreeBare == [p \in {P_CLAUDE, P_SETTINGS, P_NOTES} |-> Text(Str_A)]

InitTrees == {TreeFull, TreeBare}

\* a store holding two backups of earlier sessions, one second apart
OldStore ==
    [n \in {<<"backup", 0 - 1>>, <<"backup", 0 - 2>>} |->
        FullArchive(TreeBare, FilesToBackUp(TreeBare), "user", n[2] * TicksPerSecond)]

\* a file of the backups directory that is no archive (a damaged download, a
\* truncated copy), last written at clock reading t
NotAnArchive(t) ==
    [ zip |-> FALSE, names |-> <<>>, data |-> EmptyMap, manifest |-> FALSE,
      timestamp |-> 0, files_count |-> 0, description |-> "", mtime |-> t ]

\* the store of the earlier sessions with one damaged file next to the archives
DamagedStore ==
    Put(OldStore, <<"backup", 0 - 3>>, NotAnArchive((0 - 3) * TicksPerSecond))

InitStores == {EmptyMap, OldStore, DamagedStore}

\* the record of a call, before the call fills it in
NewCall(op) ==
    [ op |-> op, status |-> "NONE", name |-> NoName, backup_path |-> NoName,
      confirm |-> FALSE, target |-> <<>>, create_backup |-> FALSE,
      step_failed |-> 0, restore_status |-> "NONE", refusal |-> "none",
      safety |-> NoName, extracted |-> <<>>, files_affected |-> <<>>,
      keep_count |-> 0, returned |-> 0, fault |-> FALSE, listed |-> <<>>,
      file |-> EmptyMap ]

NoSnap == [name |-> NoName, tree |-> EmptyMap]

Init ==
    /\ tree \in InitTrees
    /\ store \in InitStores
    /\ now = 0
    /\ enabled \in BOOLEAN
    /\ results = <<>>
    /\ calls = 0
    /\ last = NewCall("init")
    /\ snap = NoSnap
    /\ edits = 0

(***************************************************************************)
(* The inputs of the operations.                                           *)
(***************************************************************************)
Targets == {Str_1_0_0, Str_2_0_0, Str_bad}

\* a backup name no archive has
MissingName == <<"missing", 0>>

\* a name the caller of import_backup chooses
CustomName == <<"custom", 0>>

\* files offered to import_backup: an archive with a manifest, an archive
\* without one, and a file that is no archive
ImportFiles ==
    { FullArchive(TreeBare, <<P_CLAUDE>>, "user", 0 - TicksPerSecond),
      PartialArchive(TreeBare, <<P_CLAUDE>>, 1, 0),
      NotAnArchive(0) }

\* the files the user edits between calls
EditPaths == {P_CLAUDE, P_VERSION}

(***************************************************************************)
(* The actions: the clock, the user's edits, and one per operation.        *)
(***************************************************************************)
Tick ==
    /\ now < MaxClock
    /\ calls < MaxCalls
    /\ now' = now + 1
    /\ UNCHANGED <<tree, store, enabled, results, calls, last, snap, edits>>

EditFile ==
    /\ calls < MaxCalls
    /\ edits < MaxEdits
    /\ \E p \in EditPaths :
        /\ tree' = Put(tree, p, Text(Str_B))
        /\ last' = [NewCall("edit") EXCEPT !.name = p]
    /\ edits' = edits + 1
    /\ UNCHANGED <<store, now, enabled, results, calls, snap>>

CreateBackup ==
    /\ calls < MaxCalls
    /\ \E fault \in 0..(Len(FilesToBackUp(tree)) + 1) :
        LET r == create_backup(tree, store, results, now, "user", fault)
        IN  /\ store' = r.store
            /\ results' = r.results
            /\ last' = [ NewCall("create_backup") EXCEPT
                           !.status = IF r.ok THEN "SUCCESS" ELSE "RAISED",
                           !.name = r.name,
                           !.fault = (fault # 0) ]
            /\ snap' = IF r.ok THEN [name |-> r.name, tree |-> tree] ELSE NoSnap
    /\ calls' = calls + 1
    /\ UNCHANGED <<tree, now, enabled, edits>>

RestoreBackup ==
    /\ calls < MaxCalls
    /\ \E name \in (DOMAIN store) \cup {MissingName}, confirm \in BOOLEAN,
          safetyFault \in 0..1, extractFault \in 0..2 :
        /\ (safetyFault # 0 \/ extractFault # 0) => (confirm /\ name \in DOMAIN store)
        /\ safetyFault # 0 => extractFault = 0
        /\ \E r \in {restore_backup(tree, store, results, now, name, confirm,
                                    safetyFault, extractFault)} :
               /\ tree' = r.tree
               /\ store' = r.store
               /\ results' = r.results
               /\ last' = [ NewCall("restore_backup") EXCEPT
                              !.status = r.status, !.name = name,
                              !.confirm = confirm, !.refusal = r.refusal,
                              !.backup_path = r.backup_path,
                              !.safety = r.safety, !.extracted = r.extracted,
                              !.fault = (safetyFault # 0 \/ extractFault # 0) ]
    /\ calls' = calls + 1
    /\ snap' = NoSnap
    /\ UNCHANGED <<now, enabled, edits>>

PerformUpgrade ==
    /\ calls < MaxCalls
    /\ \E target \in Targets, create_bk \in BOOLEAN, backupFault \in 0..1,
          failAt \in 0..4, t2 \in now..MaxClock,
          safetyFault \in 0..1, extractFault \in 0..1 :
        /\ t2 <= now + 1
        /\ backupFault # 0 => (create_bk /\ enabled /\ failAt = 0)
        /\ failAt = 0 => (t2 = now /\ safetyFault = 0 /\ extractFault = 0)
        /\ t2 # now => (create_bk /\ enabled)
        /\ failAt # 0 =>
              /\ failAt <= Len(generate_upgrade_steps(target))
              /\ RunSteps(tree, generate_upgrade_steps(target), 1,
                          failAt).failed = failAt
        /\ (safetyFault # 0 \/ extractFault # 0) => (create_bk /\ enabled)
        /\ safetyFault # 0 => extractFault = 0
        /\ \E r \in {perform_upgrade(tree, store, results, enabled, now, t2,
                                     target, create_bk, backupFault, failAt,
                                     safetyFault, extractFault)} :
               /\ tree' = r.tree
               /\ store' = r.store
               /\ results' = r.results
               /\ now' = t2
               /\ last' = [ NewCall("perform_upgrade") EXCEPT
                              !.status = r.status, !.target = target,
                              !.create_backup = create_bk,
                              !.name = r.backup_name,
                              !.backup_path = r.backup_path,
                              !.step_failed = r.step_failed,
                              !.restore_status = r.restore_status,
                              !.safety = r.safety, !.extracted = r.extracted,
                              !.files_affected = r.files_affected,
                              !.fault = (backupFault # 0 \/ failAt # 0) ]
    /\ calls' = calls + 1
    /\ snap' = NoSnap
    /\ UNCHANGED <<enabled, edits>>

DeleteBackup ==
    /\ calls < MaxCalls
    /\ \E name \in (DOMAIN store) \cup {MissingName} :
        /\ store' = delete_backup(store, name)
        /\ last' = [ NewCall("delete_backup") EXCEPT
                       !.name = name,
                       !.status = IF name \in DOMAIN store THEN "TRUE" ELSE "FALSE" ]
    /\ calls' = calls + 1
    /\ snap' = NoSnap
    /\ UNCHANGED <<tree, now, enabled, results, edits>>

\* keep_count is a number of backups to keep: a natural number (a negative
\* keep_count, which backups[keep_count:] would take as an index from the
\* end, is outside what is modelled here)
CleanupOldBackups ==
    /\ calls < MaxCalls
    /\ \E keep_count \in 0..MaxKeep, backups \in list_backups(store) :
        LET r == cleanup_old_backups(store, backups, keep_count)
        IN  /\ store' = r.store
            /\ last' = [ NewCall("cleanup_old_backups") EXCEPT
                           !.keep_count = keep_count,
                           !.returned = r.deleted_count ]
    /\ calls' = calls + 1
    /\ snap' = NoSnap
    /\ UNCHANGED <<tree, now, enabled, results, edits>>

ImportBackup ==
    /\ calls < MaxCalls
    /\ \E file \in ImportFiles,
          name \in (DOMAIN store) \cup {CustomName, ImportedName(now)} :
        LET r == import_backup(store, name, file)
        IN  /\ store' = r.store
            /\ last' = [ NewCall("import_backup") EXCEPT
                           !.name = name, !.file = file,
                           !.status = IF r.ok THEN "SUCCESS" ELSE "RAISED" ]
    /\ calls' = calls + 1
    /\ snap' = NoSnap
    /\ UNCHANGED <<tree, now, enabled, results, edits>>

\* list_backups reads the store and changes nothing
ListBackups ==
    /\ calls < MaxCalls
    /\ \E backups \in list_backups(store) :
        last' = [NewCall("list_backups") EXCEPT !.listed = backups]
    /\ calls' = calls + 1
    /\ snap' = NoSnap
    /\ UNCHANGED <<tree, store, now, enabled, results, edits>>

Next ==
    \/ Tick
    \/ EditFile
    \/ CreateBackup
    \/ RestoreBackup
    \/ PerformUpgrade
    \/ DeleteBackup
    \/ CleanupOldBackups
    \/ ImportBackup
    \/ ListBackups

Spec == Init /\ [][Next]_vars

(***************************************************************************)
(* The properties.  A step of an operation op is a step that counts a call *)
(* and leaves op in last; the unprimed variables are the state before the  *)
(* call and the primed ones the state after it.                            *)
(***************************************************************************)
CallOf(op) == calls' = calls + 1 /\ last'.op = op

\* the archive a holds the files create_backup writes from tree tr, with
\* the contents they have in tr
HoldsBackupOf(a, tr) ==
    /\ a.zip
    /\ a.names = FilesToBackUp(tr)
    /\ a.data = DataOf(tr, a.names, Len(a.names))

\* C1: when perform_upgrade runs with a pre-upgrade backup taken and a step
\* fails (and the rollback's restore succeeds), it returns FAILED and the tree
\* afterwards equals the tree before the call, files created by the failed
\* upgrade included.
C1_FailedUpgradeRestoresTree ==
    [][ ( /\ CallOf("perform_upgrade")
          /\ last'.create_backup /\ enabled
          /\ last'.step_failed # 0
          /\ last'.restore_status = "SUCCESS" )
        => (last'.status = "FAILED" /\ tree' = tree) ]_vars

\* C2: when a step fails and the restore of the pre-upgrade backup fails,
\* perform_upgrade returns ROLLBACK_REQUIRED.
C2_RollbackFailureIsReported ==
    ( /\ last.op = "perform_upgrade"
      /\ last.step_failed # 0
      /\ last.restore_status = "FAILED" )
    => last.status = "ROLLBACK_REQUIRED"

\* C3: every perform_upgrade ends in SUCCESS, or in ROLLBACK_REQUIRED, or in
\* FAILED with a backup_path that names an archive of the store holding the
\* pre-upgrade contents of the tree.
C3_UpgradeOutcomes ==
    [][ CallOf("perform_upgrade")
        => \/ last'.status = "SUCCESS"
           \/ last'.status = "ROLLBACK_REQUIRED"
           \/ /\ last'.status = "FAILED"
              /\ last'.backup_path \in DOMAIN store'
              /\ HoldsBackupOf(store'[last'.backup_path], tree) ]_vars

\* C4: create_backup, then edits of the tree, then restore_backup of that
\* backup with confirm=True (no I/O error) returns SUCCESS and every file of
\* the backup has the content it had when create_backup ran.
C4_CreateThenRestore ==
    [][ ( /\ CallOf("restore_backup")
          /\ snap.name # NoName
          /\ last'.name = snap.name
          /\ last'.confirm
          /\ ~last'.fault )
        => /\ last'.status = "SUCCESS"
           /\ \A i \in 1..Len(FilesToBackUp(snap.tree)) :
                LET f == FilesToBackUp(snap.tree)[i]
                IN  f \in DOMAIN tree' /\ tree'[f] = snap.tree[f] ]_vars

\* C5: restore_backup with confirm=False returns FAILED and changes neither
\* the tree nor the backup store, whether or not the backup exists.
C5_UnconfirmedRestoreChangesNothing ==
    [][ (CallOf("restore_backup") /\ ~last'.confirm)
        => /\ last'.status = "FAILED"
           /\ tree' = tree
           /\ store' = store
           /\ results' = results ]_vars

\* an unconfirmed restore of a backup that exists has been refused
C5_Witness ==
    /\ last.op = "restore_backup"
    /\ ~last.confirm
    /\ last.refusal = "unconfirmed"
    /\ last.name \in DOMAIN store

\* C6: a confirmed restore_backup of an existing backup (no I/O error)
\* completes a safety backup of the pre-restore tree, and what it extracts
\* are the members of the requested archive as it was before the call.
C6_SafetyBackupThenRequestedMembers ==
    [][ ( /\ CallOf("restore_backup")
          /\ last'.confirm
          /\ last'.name \in DOMAIN store
          /\ ~last'.fault )
        => /\ last'.safety \in DOMAIN store'
           /\ HoldsBackupOf(store'[last'.safety], tree)
           /\ last'.extracted =
                Extracted(store[last'.name], Len(store[last'.name].names)) ]_vars

\* C7: create_backup, restore_backup, import_backup and perform_upgrade leave
\* every archive of the store in place with the same members and contents.
C7_ArchivesAreNeverRewritten ==
    [][ ( \/ CallOf("create_backup")
          \/ CallOf("restore_backup")
          \/ CallOf("import_backup")
          \/ CallOf("perform_upgrade") )
        => \A n \in DOMAIN store :
              n \in DOMAIN store' /\ store'[n] = store[n] ]_vars

\* C8: a create_backup that fails while writing leaves no archive in the
\* store that was not there before, and logs one FAILED result.
C8_FailedBackupLeavesNoArchive ==
    [][ (CallOf("create_backup") /\ last'.status = "RAISED")
        => /\ (DOMAIN store') \subseteq (DOMAIN store)
           /\ results' = Append(results, "FAILED") ]_vars

\* a create_backup has failed after it wrote members to the archive
C8_Witness ==
    /\ last.op = "create_backup"
    /\ last.status = "RAISED"
    /\ last.fault
    /\ Len(results) > 0
    /\ results[Len(results)] = "FAILED"

\* glob semantics of a pattern on a whole path: "**" stands for any number
\* of directories, any other component for one
RECURSIVE GlobMatches(_, _)
GlobMatches(p, pat) ==
    IF Len(pat) = 0 THEN Len(p) = 0
    ELSE IF pat[1] = "**"
    THEN \/ GlobMatches(p, Tail(pat))
         \/ Len(p) > 0 /\ GlobMatches(Tail(p), pat)
    ELSE Len(p) > 0 /\ fnmatch(p[1], pat[1]) /\ GlobMatches(Tail(p), Tail(pat))

\* the files of tree tr that match an include pattern and no exclude pattern
IncludedFiles(tr) ==
    {p \in DOMAIN tr :
        /\ \E i \in 1..Len(backup_patterns) : GlobMatches(p, backup_patterns[i])
        /\ ~\E j \in 1..Len(exclude_patterns) : GlobMatches(p, exclude_patterns[j])}

\* C9: the archive of a successful create_backup holds one manifest and one
\* entry, exactly once, for each file matching an include pattern and no
\* exclude pattern; files_count is the number of these entries.
C9_ArchiveMirrorsIncludedFiles ==
    [][ (CallOf("create_backup") /\ last'.status = "SUCCESS")
        => LET a == store'[last'.name]
           IN  /\ a.manifest
               /\ {a.names[i] : i \in 1..Len(a.names)} = IncludedFiles(tree)
               /\ \A i, j \in 1..Len(a.names) : a.names[i] = a.names[j] => i = j
               /\ a.files_count = Len(a.names) ]_vars

Min(a, b) == IF a < b THEN a ELSE b

\* C10: cleanup_old_backups(N) leaves min(N, total) backups (the archives
\* that can be read), none of them older than a removed one, unchanged, and
\* returns the number removed.
C10_CleanupKeepsNewest ==
    [][ CallOf("cleanup_old_backups")
        => LET kept == Listed(store')
               removed == (DOMAIN store) \ (DOMAIN store')
           IN  /\ DOMAIN store' \subseteq DOMAIN store
               /\ removed \subseteq Listed(store)
               /\ \A k \in DOMAIN store' : store'[k] = store[k]
               /\ Cardinality(kept) =
                    Min(last'.keep_count, Cardinality(Listed(store)))
               /\ \A k \in kept, r \in removed :
                    InfoTimestamp(store[k]) >= InfoTimestamp(store[r])
               /\ last'.returned = Cardinality(removed) ]_vars

\* a cleanup has removed some backups and kept others
C10_Witness ==
    /\ last.op = "cleanup_old_backups"
    /\ last.returned >= 1
    /\ last.keep_count >= 1
    /\ Cardinality(Listed(store)) = last.keep_count

\* C11: list_backups returns every archive of the store that can be read,
\* once, and no file that cannot be read as an archive; it returns (does not
\* raise) when the store holds such a file; each element's timestamp is
\* greater than or equal to the next one's.
C11_ListIsReadableNewestFirst ==
    [][ CallOf("list_backups")
        => LET l == last'.listed
           IN  /\ {l[i] : i \in 1..Len(l)} = {n \in DOMAIN store : store[n].zip}
               /\ \A i, j \in 1..Len(l) : l[i] = l[j] => i = j
               /\ \A i \in 1..(Len(l) - 1) :
                     InfoTimestamp(store[l[i]]) >= InfoTimestamp(store[l[i + 1]])
               /\ store' = store /\ tree' = tree ]_vars

\* list_backups has returned two archives from a store that also holds a
\* file that is no archive
C11_Witness ==
    /\ last.op = "list_backups"
    /\ Len(last.listed) >= 2
    /\ \E n \in DOMAIN store : ~store[n].zip

\* C12: import_backup of a file that is not an archive holding a manifest
\* that parses raises and adds nothing to the store: no new name and no new
\* content under an old one.
C12_ImportRejectsInvalidFiles ==
    [][ ( /\ CallOf("import_backup")
          /\ ~(last'.file.zip /\ last'.file.manifest) )
        => /\ last'.status = "RAISED"
           /\ \A n \in DOMAIN store' :
                 n \in DOMAIN store /\ store'[n] = store[n] ]_vars

(***************************************************************************)
(* Version: the order and the equality of version_manager.py.  A Version   *)
(* is the record parse_version returns; an absent pre_release or           *)
(* build_metadata (None) is the empty text.                                *)
(***************************************************************************)
\* largest major, minor and patch number of the versions compared
MaxVersionNumber == 1

Str_alpha == <<97, 108, 112, 104, 97>>

Str_beta == <<98, 101, 116, 97>>

Str_10 == <<49, 48>>

Str_9 == <<57>>

\* the pre-release tags and build tags of the versions compared; <<>> is None
PreReleases == {<<>>, Str_alpha, Str_beta, Str_9, Str_10}

Builds == {<<>>, Str_B}

VersionOf(major, minor, patch, pre_release, build_metadata) ==
    [ ok |-> TRUE, major |-> major, minor |-> minor, patch |-> patch,
      pre_release |-> pre_release, build_metadata |-> build_metadata ]

Versions ==
    { VersionOf(ma, mi, pa, pre, bu) :
        ma \in 0..MaxVersionNumber, mi \in 0..MaxVersionNumber,
        pa \in 0..MaxVersionNumber, pre \in PreReleases, bu \in Builds }

\* Python's tuple comparison (a1, a2, a3) < (b1, b2, b3)
TupleLess(a, b) ==
    \/ a[1] < b[1]
    \/ a[1] = b[1] /\ a[2] < b[2]
    \/ a[1] = b[1] /\ a[2] = b[2] /\ a[3] < b[3]

\* an order that compares the numbers only
Version_lt_NumbersOnly(self, other) ==
    TupleLess(<<self.major, self.minor, self.patch>>,
              <<other.major, other.minor, other.patch>>)

\* Version.__lt__
Version_lt(self, other) ==
    LET self_tuple == <<self.major, self.minor, self.patch>>
        other_tuple == <<other.major, other.minor, other.patch>>
    IN  IF self_tuple # other_tuple THEN TupleLess(self_tuple, other_tuple)
        ELSE IF self.pre_release = <<>> /\ other.pre_release = <<>> THEN FALSE
        ELSE IF self.pre_release = <<>> THEN FALSE
        ELSE IF other.pre_release = <<>> THEN TRUE
        ELSE StrLess(self.pre_release, other.pre_release)

\* Version.__eq__: the build metadata is not compared
Version_eq(self, other) ==
    /\ self.major = other.major
    /\ self.minor = other.minor
    /\ self.patch = other.patch
    /\ self.pre_release = other.pre_release

\* Version.__le__
Version_le(self, other) == Version_lt(self, other) \/ Version_eq(self, other)

\* Version.__gt__
Version_gt(self, other) == ~(Version_lt(self, other) \/ Version_eq(self, other))

\* Version.__ge__
Version_ge(self, other) == ~Version_lt(self, other)

\* VersionManager.compare_versions
compare_versions(version1, version2) ==
    IF Version_lt(version1, version2) THEN 0 - 1
    ELSE IF Version_eq(version1, version2) THEN 0
    ELSE 1

\* the variables the version functions do not use
IdleInit ==
    /\ store = EmptyMap
    /\ now = 0
    /\ enabled = TRUE
    /\ results = <<>>
    /\ calls = 0
    /\ snap = NoSnap
    /\ edits = 0

VersionInit ==
    /\ IdleInit
    /\ tree = EmptyMap
    /\ last = [op |-> "init"]

\* one comparison of two versions, by every operator
CompareVersions ==
    /\ calls = 0
    /\ \E a \in Versions, b \in Versions :
        last' = [ op |-> "compare_versions", a |-> a, b |-> b,
                  lt |-> Version_lt(a, b), gt |-> Version_gt(a, b),
                  le |-> Version_le(a, b), ge |-> Version_ge(a, b),
                  eq |-> Version_eq(a, b), tl |-> Version_lt(b, a),
                  cmp |-> compare_versions(a, b) ]
    /\ calls' = 1
    /\ UNCHANGED <<tree, store, now, enabled, results, snap, edits>>

\* the pieces the texts given to parse_version are put together from:
\* surrounding blanks, runs of digits (or none), separators, a pre-release
\* part and a build part (or a bare "-" or "+")
BlankParts == {<<>>, <<32>>}

NumberParts == {<<48>>, <<49>>, <<48, 49>>, <<>>}

SeparatorParts == {<<46>>, <<45>>}

PreParts == {<<>>, <<45>> \o Str_alpha, <<45>>, <<45, 97, 45, 49>>}

BuildParts == {<<>>, <<43>> \o Str_B, <<43>>, <<43, 98, 45, 99>>}

VersionStrings ==
    { l \o n1 \o s1 \o n2 \o s2 \o n3 \o p \o b \o r :
        l \in BlankParts, n1 \in NumberParts, s1 \in SeparatorParts,
        n2 \in NumberParts, s2 \in SeparatorParts, n3 \in NumberParts,
        p \in PreParts, b \in BuildParts, r \in BlankParts }

\* parse_version(s), and for an accepted s parse_version(str(parse_version(s)))
ParseVersion ==
    /\ calls = 0
    /\ \E s \in VersionStrings :
        \E v \in {parse_version(s)} :
            last' = [ op |-> "parse_version", s |-> s, v |-> v,
                      again |-> IF v.ok THEN parse_version(VersionStr(v))
                                ELSE NoVersion ]
    /\ calls' = 1
    /\ UNCHANGED <<tree, store, now, enabled, results, snap, edits>>

VersionNext ==
    \/ CompareVersions
    \/ ParseVersion

VersionSpec == VersionInit /\ [][VersionNext]_vars

\* C13: < is irreflexive and transitive, exactly one of a<b, a==b, b<a
\* holds, a release is greater than every pre-release of the same numbers,
\* and <=, >, >= and compare_versions agree with < and ==.
C13_VersionOrder ==
    last.op = "compare_versions" =>
        LET a == last.a
            b == last.b
        IN  /\ ~Version_lt(a, a)
            /\ \A c \in Versions :
                  (last.lt /\ Version_lt(b, c)) => Version_lt(a, c)
            /\ (IF last.lt THEN 1 ELSE 0) + (IF last.eq THEN 1 ELSE 0)
                  + (IF last.tl THEN 1 ELSE 0) = 1
            /\ ( /\ <<a.major, a.minor, a.patch>> = <<b.major, b.minor, b.patch>>
                 /\ a.pre_release # <<>> /\ b.pre_release = <<>> )
               => (last.lt /\ last.gt = FALSE /\ ~last.eq)
            /\ last.le = (last.lt \/ last.eq)
            /\ last.gt = last.tl
            /\ last.ge = (last.tl \/ last.eq)
            /\ last.cmp = (IF last.lt THEN 0 - 1 ELSE IF last.eq THEN 0 ELSE 1)

\* a pre-release has been compared with the release of the same numbers
C13_Witness ==
    /\ last.op = "compare_versions"
    /\ last.a.pre_release = Str_beta
    /\ last.b.pre_release = <<>>
    /\ <<last.a.major, last.a.minor, last.a.patch>>
         = <<last.b.major, last.b.minor, last.b.patch>>
    /\ last.lt

\* the texts of VersionStrings of the shape
\* major.minor.patch[-prerelease][+build]
WellShaped ==
    { n1 \o <<46>> \o n2 \o <<46>> \o n3 \o p \o b :
        n1 \in NumberParts \ {<<>>}, n2 \in NumberParts \ {<<>>},
        n3 \in NumberParts \ {<<>>}, p \in PreParts \ {<<45>>},
        b \in BuildParts \ {<<43>>} }

\* C14 as stated: an accepted text parses back, from str() of its Version,
\* to a Version with the same five fields, and every text not of the shape
\* major.minor.patch[-prerelease][+build] is rejected.
C14_RoundTripAndRejection ==
    last.op = "parse_version" =>
        /\ last.v.ok => last.again = last.v
        /\ last.s \notin WellShaped => ~last.v.ok

\* C14, amended: the round trip as stated, and every text that is not of the
\* shape once the blanks around it are removed is rejected.
C14_RoundTripAndRejectionAfterStrip ==
    last.op = "parse_version" =>
        /\ last.v.ok => last.again = last.v
        /\ Strip(last.s) \notin WellShaped => ~last.v.ok

\* a text with a leading zero, a pre-release and a build tag has been
\* accepted: str() of its Version is another text
C14_Witness ==
    /\ last.op = "parse_version"
    /\ last.v.ok
    /\ last.v.pre_release = Str_alpha
    /\ last.v.build_metadata = Str_B
    /\ VersionStr(last.v) # last.s
    /\ last.again.ok

(***************************************************************************)
(* detect_current_version and check_for_upgrades, on configuration trees   *)
(* that differ in what tells the version.                                  *)
(***************************************************************************)
Str_2_0_1 == <<50, 46, 48, 46, 49>>

Str_3_0_0 == <<51, 46, 48, 46, 48>>

\* "version: 1.1.0", a line of CLAUDE.md that states the version
Str_version_line == <<118, 101, 114, 115, 105, 111, 110, 58, 32>> \o Str_1_1_0

\* settings.json at the root of the configuration (not .claude/settings.json)
P_ROOT_SETTINGS == <<"settings.json">>

\* a settings.json whose JSON has the key "version" with value v
Settings(v) == [k |-> "settings", s |-> v, updated_at |-> 0, checksum |-> <<>>]

\* _extract_version_from_claude_md on the contents of the model: of these
\* only the version line matches 'version[:\s]+v?(\d+\.\d+\.\d+...)'
extract_version_from_claude_md(c) ==
    IF c.k = "text" /\ c.s = Str_version_line THEN parse_version(Str_1_1_0)
    ELSE NoVersion

\* _extract_version_from_settings: the "version" key of a file that is JSON
extract_version_from_settings(c) ==
    IF c.k = "settings" THEN parse_version(c.s) ELSE NoVersion

\* detect_current_version: .version, else CLAUDE.md, else settings.json;
\* NoVersion is None
detect_current_version(tr) ==
    IF P_VERSION \in DOMAIN tr /\ parse_version(Strip(tr[P_VERSION].s)).ok
    THEN parse_version(Strip(tr[P_VERSION].s))
    ELSE IF P_CLAUDE \in DOMAIN tr /\ extract_version_from_claude_md(tr[P_CLAUDE]).ok
    THEN extract_version_from_claude_md(tr[P_CLAUDE])
    ELSE IF P_ROOT_SETTINGS \in DOMAIN tr
            /\ extract_version_from_settings(tr[P_ROOT_SETTINGS]).ok
    THEN extract_version_from_settings(tr[P_ROOT_SETTINGS])
    ELSE NoVersion

\* the keys of template_versions, in insertion order
template_versions == <<Str_1_0_0, Str_1_1_0, Str_1_2_0, Str_2_0_0, Str_2_0_1>>

\* list.sort() by Version.__lt__
RECURSIVE InsertSorted(_, _)
InsertSorted(v, sorted) ==
    IF Len(sorted) = 0 THEN <<v>>
    ELSE IF Version_lt(v, Head(sorted)) THEN <<v>> \o sorted
    ELSE <<Head(sorted)>> \o InsertSorted(v, Tail(sorted))

RECURSIVE SortVersions(_)
SortVersions(vs) ==
    IF Len(vs) = 0 THEN <<>>
    ELSE InsertSorted(Head(vs), SortVersions(Tail(vs)))

\* available_versions, parsed and sorted
available_versions ==
    SortVersions([i \in 1..Len(template_versions) |->
                     parse_version(template_versions[i])])

\* the result of check_for_upgrades: a version string, or None
NoUpgrade == [found |-> FALSE, version |-> <<>>]

\* the loop of check_for_upgrades from entry i on
RECURSIVE FirstGreater(_, _)
FirstGreater(current, i) ==
    IF i > Len(available_versions) THEN NoUpgrade
    ELSE IF Version_gt(available_versions[i], current)
    THEN [found |-> TRUE, version |-> VersionStr(available_versions[i])]
    ELSE FirstGreater(current, i + 1)

\* check_for_upgrades
check_for_upgrades(tr) ==
    IF ~detect_current_version(tr).ok
    THEN [found |-> TRUE, version |-> template_versions[Len(template_versions)]]
    ELSE FirstGreater(detect_current_version(tr), 1)

\* the contents of .version in the trees examined
VersionFileTexts ==
    { Str_1_0_0, Str_1_1_0, Str_1_2_0, Str_2_0_0, Str_2_0_1, Str_3_0_0, Str_bad,
      Str_1_0_0 \o <<45>> \o Str_alpha, <<32>> \o Str_1_2_0 \o <<32, 10>> }

\* what each file of the trees examined may hold, besides being absent
ConfigContents(p) ==
    IF p = P_VERSION THEN {Text(t) : t \in VersionFileTexts}
    ELSE IF p = P_CLAUDE
    THEN {Text(Str_A), Text(Str_version_line), Text(<<>>),
          Text(NameBytes("settings.json") \o Str_A)}
    ELSE IF p = P_ROOT_SETTINGS THEN {Text(Str_A), Settings(Str_2_0_0)}
    ELSE {Text(Str_A)}

ConfigPaths ==
    {P_VERSION, P_CLAUDE, P_ROOT_SETTINGS, P_ROOT_CMD, P_ROOT_CMD_SUB, P_NOTES}

\* the trees examined: each of .version, CLAUDE.md, settings.json, the two
\* command files and notes.txt is absent or has one of its contents
RECURSIVE ConfigTreesOver(_)
ConfigTreesOver(paths) ==
    IF paths = {} THEN {EmptyMap}
    ELSE LET p == CHOOSE q \in paths : TRUE
             rest == ConfigTreesOver(paths \ {p})
         IN  rest \cup { Put(t, p, c) : t \in rest, c \in ConfigContents(p) }

ConfigTrees == ConfigTreesOver(ConfigPaths)

ConfigInit ==
    /\ IdleInit
    /\ tree \in ConfigTrees
    /\ last = [op |-> "init"]

CheckForUpgrades ==
    /\ calls = 0
    /\ last' = [ op |-> "check_for_upgrades",
                 current |-> detect_current_version(tree),
                 result |-> check_for_upgrades(tree) ]
    /\ calls' = 1
    /\ UNCHANGED <<tree, store, now, enabled, results, snap, edits>>

\* the trees a checksum is compared with: those without .version
ChecksumTrees == { t \in ConfigTrees : P_VERSION \notin DOMAIN t }

\* calculate_config_checksum on the tree and on another tree, each with
\* the command files found in some order
CalculateConfigChecksum ==
    /\ calls = 0
    /\ \E other \in ChecksumTrees :
       \E found \in Orders(CommandFiles(tree)), found2 \in Orders(CommandFiles(other)) :
          last' = [ op |-> "calculate_config_checksum",
                    other |-> other,
                    checksum |-> config_checksum(tree, found),
                    other_checksum |-> config_checksum(other, found2) ]
    /\ calls' = 1
    /\ UNCHANGED <<tree, store, now, enabled, results, snap, edits>>

ConfigNext ==
    \/ CheckForUpgrades
    \/ CalculateConfigChecksum

ConfigSpec == ConfigInit /\ [][ConfigNext]_vars

\* the catalog entries strictly greater than the version v
CatalogAbove(v) ==
    { template_versions[i] : i \in { j \in 1..Len(template_versions) :
          Version_lt(v, parse_version(template_versions[j])) } }

\* the entries of the set S of version strings that no entry of S is less than
SmallestOf(S) ==
    { t \in S : \A u \in S : ~Version_lt(parse_version(u), parse_version(t)) }

\* C15: check_for_upgrades returns the smallest catalog entry strictly
\* greater than the detected version, none when there is no such entry; when
\* no version is detected, the smallest entry of the catalog (every entry is
\* above no version) or none.
C15_SmallestGreaterCatalogEntry ==
    last.op = "check_for_upgrades" =>
        IF last.current.ok
        THEN IF CatalogAbove(last.current) = {}
             THEN ~last.result.found
             ELSE /\ last.result.found
                  /\ last.result.version \in SmallestOf(CatalogAbove(last.current))
        ELSE \/ ~last.result.found
             \/ last.result.version
                  \in SmallestOf({template_versions[i] :
                                    i \in 1..Len(template_versions)})

\* the tracked files of a tree with their bytes: CLAUDE.md, settings.json
\* and the .md files under commands/
Tracked(tr) ==
    { <<p, FileBytes(tr[p])>> :
        p \in (DOMAIN tr) \cap ({P_CLAUDE, P_ROOT_SETTINGS} \cup CommandFiles(tr)) }

\* C17: two trees give the hasher the same input if and only if they have
\* the same tracked files with the same bytes, in whatever order the command
\* files are found.
C17_ChecksumIsFunctionOfTrackedFiles ==
    last.op = "calculate_config_checksum" =>
        ((last.checksum = last.other_checksum) <=> (Tracked(tree) = Tracked(last.other)))

\* the files of the tree after that are new or differ from the tree before
ChangedFiles(before, after) ==
    { p \in DOMAIN after : p \notin DOMAIN before \/ after[p] # before[p] }

\* the elements of a sequence
Range(seq) == { seq[i] : i \in 1..Len(seq) }

\* C16: after perform_upgrade returns SUCCESS for target T,
\* detect_current_version returns parse(T), the metadata file holds a record
\* with version T and the checksum of the resulting tree, and files_affected
\* contains every file the call changed or created.
C16_SuccessPersistsVersionAndMetadata ==
    [][(CallOf("perform_upgrade") /\ last'.status = "SUCCESS") =>
          /\ detect_current_version(tree') = parse_version(last'.target)
          /\ load_metadata_ok(tree')
          /\ parse_version(tree'[P_METADATA].s) = parse_version(last'.target)
          /\ tree'[P_METADATA].checksum = calculate_config_checksum(tree')
          /\ ChangedFiles(tree, tree') \subseteq Range(last'.files_affected)
      ]_vars

(***************************************************************************)
(* SmartDiffEngine: compare_configurations on two configuration            *)
(* directories.  Texts are sequences of character codes.                   *)
(***************************************************************************)
\* str.lower() on ASCII
ToLower(s) == [i \in 1..Len(s) |-> IF s[i] >= 65 /\ s[i] <= 90 THEN s[i] + 32 ELSE s[i]]

\* sub in s
Contains(s, sub) ==
    \E i \in 1..(Len(s) - Len(sub) + 1) : SubSeq(s, i, i + Len(sub) - 1) = sub

\* s.startswith(pre)
StartsWith(s, pre) == Len(s) >= Len(pre) /\ SubSeq(s, 1, Len(pre)) = pre

\* s.lstrip(c) and s.rstrip(c) for one character c
RECURSIVE LStripChar(_, _)
LStripChar(s, c) == IF Len(s) > 0 /\ s[1] = c THEN LStripChar(Tail(s), c) ELSE s

RECURSIVE RStripChar(_, _)
RStripChar(s, c) ==
    IF Len(s) > 0 /\ s[Len(s)] = c THEN RStripChar(SubSeq(s, 1, Len(s) - 1), c)
    ELSE s

\* self.critical_sections
critical_sections ==
    { <<67, 111, 114, 101, 32, 67, 111, 110, 102, 105, 103, 117, 114, 97, 116, 105, 111, 110>>,
      <<77, 67, 80, 32, 73, 110, 116, 101, 103, 114, 97, 116, 105, 111, 110>>,
      <<83, 101, 99, 117, 114, 105, 116, 121, 32, 83, 116, 97, 110, 100, 97, 114, 100, 115>>,
      <<109, 99, 112, 83, 101, 114, 118, 101, 114, 115>> }

Str_mcpServers == <<109, 99, 112, 83, 101, 114, 118, 101, 114, 115>>

\* an Optional[str]: None, or the string s
None == [has |-> FALSE, s |-> <<>>]

Some(s) == [has |-> TRUE, s |-> s]

\* the length of the longest prefix of s without whitespace and "#": what
\* "[^\s#]+" takes
RECURSIVE WordRun(_)
WordRun(s) ==
    IF Len(s) > 0 /\ ~IsSpace(s[1]) /\ s[1] # 35 THEN 1 + WordRun(Tail(s)) ELSE 0

\* re.search(r'@include\s+([^\s#]+)', content) from position i on: the group
RECURSIVE IncludeMatch(_, _)
IncludeMatch(content, i) ==
    IF i > Len(content) THEN None
    ELSE LET rest == SubSeq(content, i, Len(content))
             after == SubSeq(rest, 9, Len(rest))
             word == LStrip(after)
         IN  IF /\ StartsWith(rest, <<64, 105, 110, 99, 108, 117, 100, 101>>)
                /\ Len(word) < Len(after)
                /\ WordRun(word) > 0
             THEN Some(SubSeq(word, 1, WordRun(word)))
             ELSE IncludeMatch(content, i + 1)

\* _detect_section
detect_section(content) ==
    IF StartsWith(Strip(content), <<35>>)
    THEN Some(Strip(LStripChar(Strip(content), 35)))
    ELSE IF Contains(content, <<64, 105, 110, 99, 108, 117, 100, 101>>) /\ IncludeMatch(content, 1).has
    THEN Some(<<73, 110, 99, 108, 117, 100, 101, 58, 32>> \o IncludeMatch(content, 1).s)
    ELSE IF Len(Strip(content)) > 0 /\ Strip(content)[Len(Strip(content))] = 58
    THEN Some(RStripChar(Strip(content), 58))
    ELSE None

\* section and any(critical in section for critical in critical_sections);
\* an empty section string is false
InCriticalSection(section) ==
    /\ section.has
    /\ Len(section.s) > 0
    /\ \E critical \in critical_sections : Contains(section.s, critical)

\* _assess_text_impact
assess_text_impact(content, section) ==
    IF InCriticalSection(section) THEN "critical"
    ELSE IF \E keyword \in {<<115, 101, 99, 117, 114, 105, 116, 121>>, <<97, 117, 116, 104>>, <<99, 114, 101, 100, 101, 110, 116, 105, 97, 108, 115>>, <<115, 101, 99, 114, 101, 116>>, <<107, 101, 121>>} :
                Contains(ToLower(content), keyword)
    THEN "high"
    ELSE IF \E keyword \in {<<99, 111, 110, 102, 105, 103>>, <<115, 101, 116, 116, 105, 110, 103>>, <<115, 101, 114, 118, 101, 114>>, <<100, 97, 116, 97, 98, 97, 115, 101>>} :
                Contains(ToLower(content), keyword)
    THEN "medium"
    ELSE "low"

\* _is_text_auto_mergeable
is_text_auto_mergeable(content, section) ==
    IF InCriticalSection(section) THEN FALSE
    ELSE \E indicator \in {<<35>>, <<47, 47>>, <<60, 33, 45, 45>>, <<100, 101, 115, 99, 114, 105, 112, 116, 105, 111, 110>>, <<101, 120, 97, 109, 112, 108, 101>>, <<110, 111, 116, 101>>} :
             Contains(ToLower(content), indicator)

\* _assess_json_impact
assess_json_impact(json_path) ==
    IF Contains(json_path, Str_mcpServers) THEN "critical"
    ELSE IF \E path \in {<<118, 101, 114, 115, 105, 111, 110>>, <<101, 110, 118, 105, 114, 111, 110, 109, 101, 110, 116>>, <<115, 101, 99, 117, 114, 105, 116, 121>>} :
                Contains(ToLower(json_path), path)
    THEN "high"
    ELSE IF \E path \in {<<115, 101, 116, 116, 105, 110, 103, 115>>, <<99, 111, 110, 102, 105, 103>>, <<111, 112, 116, 105, 111, 110, 115>>} :
                Contains(ToLower(json_path), path)
    THEN "medium"
    ELSE "low"

\* _is_json_auto_mergeable
is_json_auto_mergeable(json_path, change_type) ==
    IF Contains(json_path, Str_mcpServers) THEN FALSE
    ELSE IF change_type = "added"
    THEN \E path \in {<<100, 101, 115, 99, 114, 105, 112, 116, 105, 111, 110>>, <<97, 117, 116, 104, 111, 114>>, <<116, 97, 103, 115>>, <<109, 101, 116, 97, 100, 97, 116, 97>>} :
             Contains(ToLower(json_path), path)
    ELSE FALSE

\* a ConfigChange: its change_type, file_path (relative to the directory it
\* lies in), section, line_number (0 - 1: None), impact_level,
\* auto_mergeable and, for a change of a text line, the line (old_content of
\* a removed line, new_content of an added one)
ConfigChange(change_type, file, section, line_number, impact_level, auto_mergeable, content) ==
    [ change_type |-> change_type, file |-> file, section |-> section,
      line_number |-> line_number, impact_level |-> impact_level,
      auto_mergeable |-> auto_mergeable, content |-> content ]

\* a JSON file: its object as the map from the key paths of its leaves to
\* their values ({"a": {"b": 1}, "c": 2} is (<<a, b>> :> 1) @@ (<<c>> :> 2))
Json(obj) == [k |-> "json", s |-> obj, updated_at |-> 0, checksum |-> <<>>]

\* the keys of the dict at key path pre
KeysAt(obj, pre) ==
    { q[Len(pre) + 1] : q \in { p \in DOMAIN obj :
          Len(p) > Len(pre) /\ SubSeq(p, 1, Len(pre)) = pre } }

\* isinstance(value at pre, dict)
IsDict(obj, pre) == pre \notin DOMAIN obj

\* the value at key path pre
ValueAt(obj, pre) ==
    [ p \in { q \in DOMAIN obj : Len(q) >= Len(pre) /\ SubSeq(q, 1, Len(pre)) = pre }
        |-> obj[p] ]

\* f"{path}.{key}" along a key path
RECURSIVE JsonPath(_)
JsonPath(pre) ==
    IF Len(pre) = 0 THEN <<>>
    ELSE IF Len(pre) = 1 THEN pre[1]
    ELSE JsonPath(SubSeq(pre, 1, Len(pre) - 1)) \o <<46>> \o pre[Len(pre)]

\* _add_json_change
add_json_change(file, change_type, pre) ==
    ConfigChange(change_type, file, Some(JsonPath(pre)), 0 - 1,
                 assess_json_impact(JsonPath(pre)),
                 is_json_auto_mergeable(JsonPath(pre), change_type), None)

\* _compare_json_objects: the changes it appends (no two of them are equal,
\* each key path being visited once)
RECURSIVE compare_json_objects(_, _, _, _)
compare_json_objects(file, old_obj, new_obj, pre) ==
    IF IsDict(old_obj, pre) /\ IsDict(new_obj, pre)
    THEN UNION { IF key \in KeysAt(old_obj, pre) /\ key \in KeysAt(new_obj, pre)
                 THEN IF ValueAt(old_obj, Append(pre, key))
                           # ValueAt(new_obj, Append(pre, key))
                      THEN compare_json_objects(file, old_obj, new_obj,
                                                Append(pre, key))
                      ELSE {}
                 ELSE IF key \in KeysAt(old_obj, pre)
                 THEN {add_json_change(file, "removed", Append(pre, key))}
                 ELSE {add_json_change(file, "added", Append(pre, key))} :
                 key \in KeysAt(old_obj, pre) \cup KeysAt(new_obj, pre) }
    ELSE IF ValueAt(old_obj, pre) # ValueAt(new_obj, pre)
    THEN {add_json_change(file, "modified", pre)}
    ELSE {}

\* str.splitlines() of a text whose line ends are "\n"
RECURSIVE splitlines(_)
splitlines(s) ==
    IF Len(s) = 0 THEN <<>>
    ELSE IF \E i \in 1..Len(s) : s[i] = 10
    THEN LET i == CHOOSE j \in 1..Len(s) :
                      s[j] = 10 /\ \A h \in 1..(j - 1) : s[h] # 10
         IN  <<SubSeq(s, 1, i - 1)>> \o splitlines(SubSeq(s, i + 1, Len(s)))
    ELSE <<s>>

\* difflib's _format_range_unified
format_range_unified(start, stop) ==
    IF stop - start = 1 THEN IntToStr(start + 1)
    ELSE IntToStr(IF stop = start THEN start ELSE start + 1)
         \o <<44>> \o IntToStr(stop - start)

\* the number of lines old_lines and new_lines begin with in common
RECURSIVE CommonPrefix(_, _)
CommonPrefix(a, b) ==
    IF Len(a) > 0 /\ Len(b) > 0 /\ a[1] = b[1]
    THEN 1 + CommonPrefix(Tail(a), Tail(b))
    ELSE 0

Max(a, b) == IF a > b THEN a ELSE b

\* difflib.unified_diff(old_lines, new_lines, fromfile, tofile, lineterm="",
\* n=3) when one of the two lists continues the other: the two file lines,
\* one hunk header, up to three lines of context, the lines added or removed
unified_diff(old_lines, new_lines, name) ==
    LET same == CommonPrefix(old_lines, new_lines)
        from == Max(same - 3, 0)
    IN  IF old_lines = new_lines THEN <<>>
        ELSE << <<45, 45, 45, 32, 111, 108, 100, 47>> \o name, <<43, 43, 43, 32, 110, 101, 119, 47>> \o name,
                <<64, 64, 32, 45>> \o format_range_unified(from, Len(old_lines))
                    \o <<32, 43>> \o format_range_unified(from, Len(new_lines))
                    \o <<32, 64, 64>> >>
             \o [i \in 1..(same - from) |-> <<32>> \o old_lines[from + i]]
             \o [i \in 1..(Len(old_lines) - same) |-> <<45>> \o old_lines[same + i]]
             \o [i \in 1..(Len(new_lines) - same) |-> <<43>> \o new_lines[same + i]]

\* int(re.search(r'\+(\d+)', line).group(1)): the number after the first "+"
\* that digits follow; 0 - 1 when there is none
RECURSIVE HunkStart(_)
HunkStart(line) ==
    IF Len(line) < 2 THEN 0 - 1
    ELSE IF line[1] = 43 /\ DigitRun(Tail(line)) > 0
    THEN ToInt(SubSeq(line, 2, 1 + DigitRun(Tail(line))))
    ELSE HunkStart(Tail(line))

\* the loop of _parse_unified_diff from line i on, line_number being its
\* counter: the changes it appends, as a bag
RECURSIVE parse_unified_diff(_, _, _, _)
parse_unified_diff(file, diff_lines, i, line_number) ==
    IF i > Len(diff_lines) THEN EmptyBag
    ELSE LET line == diff_lines[i]
             content == Tail(line)
             section == detect_section(content)
         IN  IF StartsWith(line, <<64, 64>>)
             THEN parse_unified_diff(file, diff_lines, i + 1,
                      IF HunkStart(line) >= 0 THEN HunkStart(line) ELSE line_number)
             ELSE IF StartsWith(line, <<45>>)
             THEN SetToBag({ConfigChange("removed", file, section, line_number,
                                assess_text_impact(content, section), FALSE,
                                Some(content))})
                  (+) parse_unified_diff(file, diff_lines, i + 1, line_number)
             ELSE IF StartsWith(line, <<43>>)
             THEN SetToBag({ConfigChange("added", file, section, line_number,
                                assess_text_impact(content, section),
                                is_text_auto_mergeable(content, section),
                                Some(content))})
                  (+) parse_unified_diff(file, diff_lines, i + 1, line_number + 1)
             ELSE IF ~StartsWith(line, <<32>>)
             THEN parse_unified_diff(file, diff_lines, i + 1, line_number + 1)
             ELSE parse_unified_diff(file, diff_lines, i + 1, line_number)

\* _compare_text_content
compare_text_content(file, old_content, new_content) ==
    parse_unified_diff(file,
        unified_diff(splitlines(old_content), splitlines(new_content),
                     NameBytes(file[Len(file)])), 1, 0)

\* Path.suffix, lower-cased: from the last "." of the name on
RECURSIVE Suffix(_)
Suffix(name) ==
    IF ~Contains(name, <<46>>) THEN <<>>
    ELSE IF Contains(Tail(name), <<46>>) THEN Suffix(Tail(name))
    ELSE IF name[1] = 46 THEN ToLower(name)
    ELSE Suffix(Tail(name))

\* _is_file_auto_mergeable
is_file_auto_mergeable(file) ==
    /\ Suffix(NameBytes(file[Len(file)])) \in {<<46, 109, 100>>, <<46, 116, 120, 116>>, <<46, 114, 115, 116>>}
    /\ ToLower(NameBytes(file[Len(file)])) \notin {<<99, 108, 97, 117, 100, 101, 46, 109, 100>>, <<114, 101, 97, 100, 109, 101, 46, 109, 100>>}

\* a removed file reported as a modified one
add_file_removed_AsModified(file) ==
    SetToBag({ConfigChange("modified", file, None, 0 - 1, "high", FALSE, None)})

\* _add_file_removed
add_file_removed(file) ==
    SetToBag({ConfigChange("removed", file, None, 0 - 1, "high", FALSE, None)})

\* _add_file_added
add_file_added(file) ==
    SetToBag({ConfigChange("added", file, None, 0 - 1, "medium",
                           is_file_auto_mergeable(file), None)})

\* _compare_file_content
compare_file_content(file, old, new) ==
    IF old = new THEN EmptyBag
    ELSE IF Suffix(NameBytes(file[Len(file)])) = <<46, 106, 115, 111, 110>>
    THEN IF old.k = "json" /\ new.k = "json"
         THEN SetToBag(compare_json_objects(file, old.s, new.s, <<>>))
         ELSE compare_text_content(file, FileBytes(old), FileBytes(new))
    ELSE IF Suffix(NameBytes(file[Len(file)])) \in {<<46, 109, 100>>, <<46, 121, 109, 108>>, <<46, 121, 97, 109, 108>>}
    THEN compare_text_content(file, old.s, new.s)
    ELSE EmptyBag

\* _get_config_files: CLAUDE.md, settings.json and the .md files under
\* commands/ (the trees hold no .yml and no .yaml file)
get_config_files(tr) ==
    { p \in DOMAIN tr : p \in {P_CLAUDE, P_ROOT_SETTINGS} \/ p \in CommandFiles(tr) }

\* the loop of compare_configurations over the files of the set todo
RECURSIVE CompareFiles(_, _, _)
CompareFiles(old, new, todo) ==
    IF todo = {} THEN EmptyBag
    ELSE LET file_name == CHOOSE f \in todo : TRUE
         IN  (IF file_name \in get_config_files(old)
                 /\ file_name \in get_config_files(new)
              THEN compare_file_content(file_name, old[file_name], new[file_name])
              ELSE IF file_name \in get_config_files(old)
              THEN add_file_removed(file_name)
              ELSE add_file_added(file_name))
             (+) CompareFiles(old, new, todo \ {file_name})

\* compare_configurations: self.changes as a bag, the order of the list
\* being the order in which Python iterates over a set of strings
compare_configurations(old, new) ==
    CompareFiles(old, new, get_config_files(old) \cup get_config_files(new))

\* keys of settings.json
Key_description == <<100, 101, 115, 99, 114, 105, 112, 116, 105, 111, 110>>

Key_SecurityStandards == <<83, 101, 99, 117, 114, 105, 116, 121, 32, 83, 116, 97, 110, 100, 97, 114, 100, 115>>

Key_tags == <<116, 97, 103, 115>>

\* the key paths of the leaves a settings.json of the trees compared may have
JsonLeaves ==
    { <<Str_mcpServers, Key_description>>, <<Str_mcpServers, Key_tags>>,
      <<Str_mcpServers>>, <<Key_description>>,
      <<Key_SecurityStandards, Key_description>> }

\* the objects of settings.json: no leaf lies below another leaf,
\* mcpServers has no "tags" without a "description", and only the top-level
\* "description" has more than one value
JsonObjects ==
    UNION { { obj \in [D -> {1, 2}] :
                \A p \in D : p # <<Key_description>> => obj[p] = 1 } :
            D \in { E \in SUBSET JsonLeaves :
                      /\ <<Str_mcpServers>> \in E =>
                             /\ <<Str_mcpServers, Key_description>> \notin E
                             /\ <<Str_mcpServers, Key_tags>> \notin E
                      /\ <<Str_mcpServers, Key_tags>> \in E =>
                             <<Str_mcpServers, Key_description>> \in E } }

\* the lines of CLAUDE.md: it holds the first two, or all four
ClaudeLines ==
    << <<35, 35, 32, 83, 101, 99, 117, 114, 105, 116, 121, 32, 83, 116, 97, 110, 100, 97, 114, 100, 115>>, <<45, 32, 114, 117, 108, 101>>, <<45, 32, 110, 111, 116, 101, 58, 32, 97, 108, 108, 111, 119, 32, 97, 108, 108>>,
       <<35, 35, 32, 77, 67, 80, 32, 73, 110, 116, 101, 103, 114, 97, 116, 105, 111, 110>> >>

\* "\n".join(lines) + "\n"
RECURSIVE JoinLines(_)
JoinLines(lines) ==
    IF Len(lines) = 0 THEN <<>>
    ELSE Head(lines) \o <<10>> \o JoinLines(Tail(lines))

\* what each file of the trees compared may hold, besides being absent
DiffContents(p) ==
    IF p = P_CLAUDE
    THEN { Text(JoinLines(SubSeq(ClaudeLines, 1, n))) : n \in {2, Len(ClaudeLines)} }
    ELSE IF p = P_ROOT_SETTINGS THEN { Json(obj) : obj \in JsonObjects }
    ELSE {Text(Str_A)}

DiffPaths == {P_CLAUDE, P_ROOT_SETTINGS, P_ROOT_CMD, P_NOTES}

\* the configuration directories compared
DiffTrees ==
    UNION { { f \in [D -> UNION {DiffContents(p) : p \in D}] :
                \A p \in D : f[p] \in DiffContents(p) } :
            D \in SUBSET DiffPaths }

DiffInit ==
    /\ IdleInit
    /\ tree \in DiffTrees
    /\ last = [op |-> "init"]

\* compare_configurations(tree, other) and compare_configurations(other, tree)
CompareConfigurations ==
    /\ calls = 0
    /\ \E other \in { t \in DiffTrees : P_NOTES \notin DOMAIN t } :
          last' = [ op |-> "compare_configurations",
                    other |-> other,
                    changes |-> compare_configurations(tree, other),
                    reverse |-> compare_configurations(other, tree) ]
    /\ calls' = 1
    /\ UNCHANGED <<tree, store, now, enabled, results, snap, edits>>

DiffNext ==
    \/ CompareConfigurations

DiffSpec == DiffInit /\ [][DiffNext]_vars

\* one key path begins with the other
PrefixOf(p, q) == Len(p) <= Len(q) /\ SubSeq(q, 1, Len(p)) = p

\* two objects differ only by keys present on one side
OnlyKeysAddedOrRemoved(a, b) ==
    \A p \in DOMAIN a, q \in DOMAIN b :
        IF p = q THEN a[p] = b[q] ELSE ~PrefixOf(p, q) /\ ~PrefixOf(q, p)

\* two trees differ only by files present on one side and by keys of
\* settings.json present on one side
OnlyAdditionsAndRemovals(a, b) ==
    \A f \in get_config_files(a) \cap get_config_files(b) :
        \/ a[f] = b[f]
        \/ a[f].k = "json" /\ b[f].k = "json" /\ OnlyKeysAddedOrRemoved(a[f].s, b[f].s)

Mirrored(change_type) ==
    IF change_type = "added" THEN "removed"
    ELSE IF change_type = "removed" THEN "added"
    ELSE change_type

\* every change of the bag x is an Added or a Removed one, and the bag y holds
\* as many changes of the other type for the same file and locator
MirrorIn(x, y) ==
    \A c \in BagToSet(x) :
        /\ c.change_type \in {"added", "removed"}
        /\ \E d \in BagToSet(y) :
              /\ d.change_type = Mirrored(c.change_type)
              /\ d.file = c.file
              /\ d.section = c.section
              /\ d.line_number = c.line_number
              /\ CopiesIn(d, y) = CopiesIn(c, x)

IsHeader(line) == StartsWith(Strip(line), <<35>>)

\* the text line content stands in lines below a header that names a
\* critical section
UnderCriticalHeader(lines, content) ==
    \E i \in 1..Len(lines) :
        /\ lines[i] = content
        /\ \E h \in 1..i :
              /\ IsHeader(lines[h])
              /\ InCriticalSection(detect_section(lines[h]))
              /\ \A g \in (h + 1)..i : ~IsHeader(lines[g])

\* the lines of a text file of a tree
LinesOf(tr, file) ==
    IF file \in DOMAIN tr /\ tr[file].k = "text" THEN splitlines(tr[file].s)
    ELSE <<>>

\* the change c of compare_configurations(old, new) is located in the server
\* registry or in a critical section: its section names one, or it is a line
\* of the part of a text file that a critical header opens
LocatedInCritical(c, old, new) ==
    \/ InCriticalSection(c.section)
    \/ /\ c.content.has
       /\ UnderCriticalHeader(
              LinesOf(IF c.change_type = "removed" THEN old ELSE new, c.file),
              c.content.s)

\* C19: in the changes compare_configurations produces, auto_mergeable is
\* false for every change located in mcpServers or in a critical section, no
\* change of impact level critical is auto_mergeable, and only changes of
\* type Added are auto_mergeable.
C19_CriticalIsNeverAutoMergeable ==
    last.op = "compare_configurations" =>
        \A c \in BagToSet(last.changes) :
            /\ LocatedInCritical(c, tree, last.other) => ~c.auto_mergeable
            /\ c.impact_level = "critical" => ~c.auto_mergeable
            /\ c.auto_mergeable => c.change_type = "added"

(***************************************************************************)
(* ConflictResolver.resolve_conflict and the resolution strategies.        *)
(* Confidences are in tenths: 9 is 0.9.                                    *)
(***************************************************************************)
\* "\n".join(lines)
RECURSIVE JoinNewline(_)
JoinNewline(lines) ==
    IF Len(lines) = 0 THEN <<>>
    ELSE IF Len(lines) = 1 THEN lines[1]
    ELSE lines[1] \o <<10>> \o JoinNewline(Tail(lines))

\* _find_matching_line: the index (from 0) of the first line equal to
\* target, 0 - 1 for None
find_matching_line(lines, target) ==
    IF \E i \in 1..Len(lines) : lines[i] = target
    THEN (CHOOSE i \in 1..Len(lines) :
              lines[i] = target /\ \A h \in 1..(i - 1) : lines[h] # target) - 1
    ELSE 0 - 1

\* the while loop of _resolve_content_conflict_merge and the two extends
\* after it; i and j count from 0 as in the code
RECURSIVE MergeLines(_, _, _, _)
MergeLines(local_lines, remote_lines, i, j) ==
    IF ~(i < Len(local_lines) /\ j < Len(remote_lines))
    THEN SubSeq(local_lines, i + 1, Len(local_lines))
         \o SubSeq(remote_lines, j + 1, Len(remote_lines))
    ELSE IF local_lines[i + 1] = remote_lines[j + 1]
    THEN <<local_lines[i + 1]>> \o MergeLines(local_lines, remote_lines, i + 1, j + 1)
    ELSE LET local_ahead == find_matching_line(
                 SubSeq(local_lines, i + 1, Len(local_lines)), remote_lines[j + 1])
             remote_ahead == find_matching_line(
                 SubSeq(remote_lines, j + 1, Len(remote_lines)), local_lines[i + 1])
         IN  IF local_ahead >= 0 /\ (remote_ahead < 0 \/ local_ahead <= remote_ahead)
             THEN SubSeq(local_lines, i + 1, i + local_ahead)
                  \o MergeLines(local_lines, remote_lines, i + local_ahead, j)
             ELSE IF remote_ahead >= 0
             THEN SubSeq(remote_lines, j + 1, j + remote_ahead)
                  \o MergeLines(local_lines, remote_lines, i, j + remote_ahead)
             ELSE << <<35, 32, 76, 79, 67, 65, 76, 58, 32>> \o local_lines[i + 1],
                     <<35, 32, 82, 69, 77, 79, 84, 69, 58, 32>> \o remote_lines[j + 1] >>
                  \o MergeLines(local_lines, remote_lines, i + 1, j + 1)

\* a ConflictResolution whose confidence is kept in percent
ConflictResolution_Percent(resolution_strategy, resolved_content, confidence, manual_review_required) ==
    [ raised |-> FALSE, resolution_strategy |-> resolution_strategy,
      resolved_content |-> resolved_content, confidence |-> 10 * confidence,
      manual_review_required |-> manual_review_required ]

\* a ConflictResolution, or the exception a strategy raised
ConflictResolution(resolution_strategy, resolved_content, confidence, manual_review_required) ==
    [ raised |-> FALSE, resolution_strategy |-> resolution_strategy,
      resolved_content |-> resolved_content, confidence |-> confidence,
      manual_review_required |-> manual_review_required ]

Raised ==
    [ raised |-> TRUE, resolution_strategy |-> "", resolved_content |-> <<>>,
      confidence |-> 0, manual_review_required |-> FALSE ]

\* _resolve_content_conflict_merge
resolve_content_conflict_merge(conflict) ==
    LET merged_content ==
            JoinNewline(MergeLines(splitlines(conflict.local_content),
                                   splitlines(conflict.remote_content), 0, 0))
        confidence == IF Contains(merged_content, <<35, 32, 76, 79, 67, 65, 76, 58>>) THEN 3 ELSE 7
    IN  ConflictResolution("content_merge", merged_content, confidence, confidence < 5)

\* _resolve_content_conflict_prefer_local
resolve_content_conflict_prefer_local(conflict) ==
    ConflictResolution("prefer_local", conflict.local_content, 9, FALSE)

\* _resolve_content_conflict_prefer_remote
resolve_content_conflict_prefer_remote(conflict) ==
    ConflictResolution("prefer_remote", conflict.remote_content, 9, FALSE)

\* _resolve_section_conflict_merge
resolve_section_conflict_merge(conflict) ==
    IF Len(Strip(conflict.local_content)) = 0
    THEN ConflictResolution("section_merge", Strip(conflict.remote_content), 10, FALSE)
    ELSE IF Len(Strip(conflict.remote_content)) = 0
    THEN ConflictResolution("section_merge", Strip(conflict.local_content), 10, FALSE)
    ELSE ConflictResolution("section_merge",
             Strip(conflict.local_content) \o <<10, 10>>
                 \o Strip(conflict.remote_content), 6, TRUE)

\* _resolve_section_conflict_append
resolve_section_conflict_append(conflict) ==
    ConflictResolution("section_append",
        conflict.local_content \o <<10, 10, 45, 45, 45, 32, 70, 114, 111, 109, 32, 82, 101, 109, 111, 116, 101, 32, 45, 45, 45, 10>> \o conflict.remote_content,
        8, FALSE)

\* a JSON value: a dict of numbers (its items are <<key, number>> pairs in
\* the order of the text) or a list (its items are numbers, or Unhashable
\* for an item that is a dict)
JsonDict(items) == [ok |-> TRUE, kind |-> "dict", items |-> items]

JsonList(items) == [ok |-> TRUE, kind |-> "list", items |-> items]

Unhashable == 0 - 1

\* the JSON texts among the contents of the conflicts
Json_a1 == <<123, 34, 97, 34, 58, 32, 49, 125>>

Json_a2b1 == <<123, 34, 97, 34, 58, 32, 50, 44, 32, 34, 98, 34, 58, 32, 49, 125>>

Json_list == <<91, 123, 125, 93>>

\* the depth of nesting at which json.loads raises RecursionError (the
\* recursion limit of the interpreter)
DeepNesting == 1000

\* DeepNesting times "[" and then DeepNesting times "]"
Json_deep == [i \in 1..(2 * DeepNesting) |-> IF i <= DeepNesting THEN 91 ELSE 93]

\* json.loads(content) if content else {}: of the contents of the conflicts
\* only these are JSON; on Json_deep json.loads raises RecursionError, for
\* the others it raises JSONDecodeError
json_loads(content) ==
    IF Len(content) = 0 THEN JsonDict(<<>>)
    ELSE IF content = Json_deep
    THEN [ok |-> FALSE, kind |-> "RecursionError", items |-> <<>>]
    ELSE IF content = Json_a1 THEN JsonDict(<< <<<<97>>, 1>> >>)
    ELSE IF content = Json_a2b1 THEN JsonDict(<< <<<<97>>, 2>>, <<<<98>>, 1>> >>)
    ELSE IF content = Json_list THEN JsonList(<<Unhashable>>)
    ELSE [ok |-> FALSE, kind |-> "", items |-> <<>>]

\* ",\n".join of the lines of json.dumps(value, indent=2)
RECURSIVE DumpItems(_, _)
DumpItems(kind, items) ==
    IF Len(items) = 0 THEN <<>>
    ELSE <<32, 32>>
         \o (IF kind = "dict"
             THEN <<34>> \o items[1][1] \o <<34, 58, 32>> \o IntToStr(items[1][2])
             ELSE IF items[1] = Unhashable THEN <<123, 125>>
             ELSE IntToStr(items[1]))
         \o (IF Len(items) > 1 THEN <<44, 10>> \o DumpItems(kind, Tail(items))
             ELSE <<>>)

\* json.dumps(value, indent=2)
json_dumps(value) ==
    IF Len(value.items) = 0
    THEN (IF value.kind = "dict" THEN <<123, 125>> ELSE <<91, 93>>)
    ELSE (IF value.kind = "dict" THEN <<123, 10>> ELSE <<91, 10>>)
         \o DumpItems(value.kind, value.items)
         \o (IF value.kind = "dict" THEN <<10, 125>> ELSE <<10, 93>>)

\* the loop of _deep_merge_json over remote.items() from item i on
RECURSIVE MergeItems(_, _, _)
MergeItems(merged, remote_items, i) ==
    IF i > Len(remote_items) THEN merged
    ELSE LET key == remote_items[i][1]
         IN  MergeItems(
                 IF \E h \in 1..Len(merged) : merged[h][1] = key
                 THEN [h \in 1..Len(merged) |->
                          IF merged[h][1] = key THEN remote_items[i] ELSE merged[h]]
                 ELSE Append(merged, remote_items[i]),
                 remote_items, i + 1)

\* list(dict.fromkeys(items))
RECURSIVE FromKeys(_)
FromKeys(items) ==
    IF Len(items) = 0 THEN <<>>
    ELSE LET before == FromKeys(SubSeq(items, 1, Len(items) - 1))
         IN  IF \E h \in 1..Len(before) : before[h] = items[Len(items)]
             THEN before
             ELSE Append(before, items[Len(items)])

\* _deep_merge_json; dict.fromkeys raises TypeError on an item that is a dict
deep_merge_json(local, remote) ==
    IF local.kind = "dict" /\ remote.kind = "dict"
    THEN [raised |-> FALSE, value |-> JsonDict(MergeItems(local.items, remote.items, 1))]
    ELSE IF local.kind = "list" /\ remote.kind = "list"
    THEN IF \E h \in 1..Len(local.items \o remote.items) :
                (local.items \o remote.items)[h] = Unhashable
         THEN [raised |-> TRUE, value |-> remote]
         ELSE [raised |-> FALSE, value |-> JsonList(FromKeys(local.items \o remote.items))]
    ELSE [raised |-> FALSE, value |-> remote]

\* the exception of the two json.loads calls that open a JSON strategy: the
\* local content is loaded first, and the first exception ends the try block
loads_error(conflict) ==
    LET local_obj == json_loads(conflict.local_content)
        remote_obj == json_loads(conflict.remote_content)
    IN  IF ~local_obj.ok
        THEN (IF local_obj.kind = "RecursionError" THEN "RecursionError"
              ELSE "JSONDecodeError")
        ELSE IF ~remote_obj.ok
        THEN (IF remote_obj.kind = "RecursionError" THEN "RecursionError"
              ELSE "JSONDecodeError")
        ELSE ""

\* _resolve_json_conflict_deep_merge
resolve_json_conflict_deep_merge(conflict) ==
    LET local_obj == json_loads(conflict.local_content)
        remote_obj == json_loads(conflict.remote_content)
    IN  IF loads_error(conflict) = "RecursionError" THEN Raised
        ELSE IF loads_error(conflict) = "JSONDecodeError"
        THEN ConflictResolution("json_deep_merge", conflict.local_content, 0, TRUE)
        ELSE IF deep_merge_json(local_obj, remote_obj).raised THEN Raised
        ELSE ConflictResolution("json_deep_merge",
                 json_dumps(deep_merge_json(local_obj, remote_obj).value), 8, FALSE)

\* _calculate_json_complexity
calculate_json_complexity(obj) ==
    IF obj.kind = "dict" THEN 2 * Len(obj.items)
    ELSE Cardinality({h \in 1..Len(obj.items) : obj.items[h] # Unhashable})

\* _resolve_json_conflict_prefer_structure
resolve_json_conflict_prefer_structure(conflict) ==
    LET local_obj == json_loads(conflict.local_content)
        remote_obj == json_loads(conflict.remote_content)
    IN  IF loads_error(conflict) = "RecursionError" THEN Raised
        ELSE IF loads_error(conflict) = "JSONDecodeError"
        THEN ConflictResolution("json_prefer_structure", conflict.local_content, 0, TRUE)
        ELSE IF calculate_json_complexity(local_obj)
                    >= calculate_json_complexity(remote_obj)
        THEN ConflictResolution("json_prefer_structure", conflict.local_content, 7, FALSE)
        ELSE ConflictResolution("json_prefer_structure", conflict.remote_content, 7, FALSE)

\* _resolve_structure_conflict_preserve_both
resolve_structure_conflict_preserve_both(conflict) ==
    ConflictResolution("preserve_both",
        conflict.local_content \o <<10, 10, 35, 32, 65, 108, 116, 101, 114, 110, 97, 116, 105, 118, 101, 32, 115, 116, 114, 117, 99, 116, 117, 114, 101, 58, 10>>
            \o conflict.remote_content, 6, TRUE)

\* _resolve_structure_conflict_prioritize
resolve_structure_conflict_prioritize(conflict) ==
    IF Len(conflict.local_content) >= Len(conflict.remote_content)
    THEN ConflictResolution("prioritize_local", conflict.local_content, 7, FALSE)
    ELSE ConflictResolution("prioritize_remote", conflict.remote_content, 7, FALSE)

\* self.resolution_strategies: the strategies of a conflict type, in the
\* order of registration
resolution_strategies(conflict_type) ==
    CASE conflict_type = "content" ->
             << "_resolve_content_conflict_merge",
                "_resolve_content_conflict_prefer_local",
                "_resolve_content_conflict_prefer_remote" >>
      [] conflict_type = "section" ->
             << "_resolve_section_conflict_merge", "_resolve_section_conflict_append" >>
      [] conflict_type = "json_merge" ->
             << "_resolve_json_conflict_deep_merge",
                "_resolve_json_conflict_prefer_structure" >>
      [] conflict_type = "line" ->
             << "_resolve_line_conflict_smart_merge",
                "_resolve_line_conflict_context_aware" >>
      [] conflict_type = "structure" ->
             << "_resolve_structure_conflict_preserve_both",
                "_resolve_structure_conflict_prioritize" >>

\* strategy_func(conflict_info)
Call(strategy_func, conflict) ==
    CASE strategy_func = "_resolve_content_conflict_merge" ->
             resolve_content_conflict_merge(conflict)
      [] strategy_func = "_resolve_content_conflict_prefer_local" ->
             resolve_content_conflict_prefer_local(conflict)
      [] strategy_func = "_resolve_content_conflict_prefer_remote" ->
             resolve_content_conflict_prefer_remote(conflict)
      [] strategy_func = "_resolve_section_conflict_merge" ->
             resolve_section_conflict_merge(conflict)
      [] strategy_func = "_resolve_section_conflict_append" ->
             resolve_section_conflict_append(conflict)
      [] strategy_func = "_resolve_json_conflict_deep_merge" ->
             resolve_json_conflict_deep_merge(conflict)
      [] strategy_func = "_resolve_json_conflict_prefer_structure" ->
             resolve_json_conflict_prefer_structure(conflict)
      [] strategy_func = "_resolve_line_conflict_smart_merge" ->
             resolve_content_conflict_merge(conflict)
      [] strategy_func = "_resolve_line_conflict_context_aware" ->
             resolve_content_conflict_merge(conflict)
      [] strategy_func = "_resolve_structure_conflict_preserve_both" ->
             resolve_structure_conflict_preserve_both(conflict)
      [] strategy_func = "_resolve_structure_conflict_prioritize" ->
             resolve_structure_conflict_prioritize(conflict)

\* a comparison that lets a later strategy of equal confidence win
Better_OrEqual(confidence, highest_confidence) == confidence >= highest_confidence

\* resolution.confidence > highest_confidence
Better(confidence, highest_confidence) == confidence > highest_confidence

\* a fallback that prefers the remote content and asks for no review
Manual_PreferRemote(conflict) == ConflictResolution("manual", conflict.remote_content, 0, FALSE)

\* the fallback to manual resolution
Manual(conflict) == ConflictResolution("manual", conflict.local_content, 0, TRUE)

\* the loop of resolve_conflict over the strategies from index i on;
\* best.raised stands for best_resolution being None
RECURSIVE TryStrategies(_, _, _, _, _)
TryStrategies(conflict, strategies, i, best_resolution, highest_confidence) ==
    IF i > Len(strategies) THEN best_resolution
    ELSE LET resolution == Call(strategies[i], conflict)
         IN  IF ~resolution.raised /\ Better(resolution.confidence, highest_confidence)
             THEN TryStrategies(conflict, strategies, i + 1, resolution,
                                resolution.confidence)
             ELSE TryStrategies(conflict, strategies, i + 1, best_resolution,
                                highest_confidence)

\* resolve_conflict(conflict_info) with no strategy named
resolve_conflict(conflict) ==
    LET best_resolution ==
            TryStrategies(conflict, resolution_strategies(conflict.conflict_type),
                          1, Raised, 0)
    IN  IF ~best_resolution.raised THEN best_resolution ELSE Manual(conflict)

ConflictTypes == {"content", "section", "json_merge", "line", "structure"}

\* the local and remote contents of the conflicts
ConflictContents ==
    { <<>>, <<97, 10, 98>>, <<97, 10, 99>>, <<98>>, Json_a1, Json_a2b1, Json_list }

ResolverInit ==
    /\ IdleInit
    /\ tree = EmptyMap
    /\ last = [op |-> "init"]

\* resolve_conflict on one conflict; outcomes are what each registered
\* strategy returns for it
ResolveConflict ==
    /\ calls = 0
    /\ \E conflict_type \in ConflictTypes,
          local_content \in ConflictContents, remote_content \in ConflictContents :
        \E conflict \in {[ conflict_type |-> conflict_type,
                           local_content |-> local_content,
                           remote_content |-> remote_content ]} :
          last' = [ op |-> "resolve_conflict",
                    conflict |-> conflict,
                    outcomes |-> [i \in 1..Len(resolution_strategies(conflict_type))
                                    |-> Call(resolution_strategies(conflict_type)[i],
                                             conflict)],
                    resolution |-> resolve_conflict(conflict) ]
    /\ calls' = 1
    /\ UNCHANGED <<tree, store, now, enabled, results, snap, edits>>

\* the strategy names handed to resolve_conflict
StrategyNames ==
    { "merge", "prefer_local", "append", "deep_merge", "prefer_structure",
      "context_aware", "prioritize", "e", "manual" }

\* strategy_func.__name__.endswith(strategy), for the names of StrategyNames
name_endswith(strategy_func, strategy) ==
    CASE strategy = "merge" ->
             strategy_func \in { "_resolve_content_conflict_merge",
                                 "_resolve_section_conflict_merge",
                                 "_resolve_json_conflict_deep_merge",
                                 "_resolve_line_conflict_smart_merge" }
      [] strategy = "prefer_local" ->
             strategy_func = "_resolve_content_conflict_prefer_local"
      [] strategy = "append" -> strategy_func = "_resolve_section_conflict_append"
      [] strategy = "deep_merge" -> strategy_func = "_resolve_json_conflict_deep_merge"
      [] strategy = "prefer_structure" ->
             strategy_func = "_resolve_json_conflict_prefer_structure"
      [] strategy = "context_aware" ->
             strategy_func = "_resolve_line_conflict_context_aware"
      [] strategy = "prioritize" ->
             strategy_func = "_resolve_structure_conflict_prioritize"
      [] strategy = "e" ->
             strategy_func \notin { "_resolve_content_conflict_prefer_local",
                                    "_resolve_section_conflict_append",
                                    "_resolve_structure_conflict_preserve_both" }
      [] strategy = "manual" -> FALSE

\* resolve_conflict(conflict_info, strategy): the first registered strategy
\* whose name ends with the given one is called outside any try block, so
\* what it raises leaves resolve_conflict; with no such strategy the loop
\* over all of them runs
resolve_conflict_named(conflict, strategy) ==
    LET strategies == resolution_strategies(conflict.conflict_type)
        found == { i \in 1..Len(strategies) : name_endswith(strategies[i], strategy) }
    IN  IF found # {}
        THEN Call(strategies[CHOOSE i \in found : \A h \in found : i <= h], conflict)
        ELSE resolve_conflict(conflict)

\* resolve_conflict on one conflict with a strategy named
ResolveConflictNamed ==
    /\ calls = 0
    /\ \E conflict_type \in ConflictTypes, strategy \in StrategyNames,
          local_content \in ConflictContents, remote_content \in ConflictContents :
        \E conflict \in {[ conflict_type |-> conflict_type,
                           local_content |-> local_content,
                           remote_content |-> remote_content ]} :
          last' = [ op |-> "resolve_conflict_named",
                    conflict |-> conflict,
                    strategy |-> strategy,
                    resolution |-> resolve_conflict_named(conflict, strategy) ]
    /\ calls' = 1
    /\ UNCHANGED <<tree, store, now, enabled, results, snap, edits>>

ResolverNext ==
    \/ ResolveConflict
    \/ ResolveConflictNamed

ResolverSpec == ResolverInit /\ [][ResolverNext]_vars

\* the strategies that returned a result of the highest confidence returned
Winners(outcomes) ==
    { i \in 1..Len(outcomes) :
        /\ ~outcomes[i].raised
        /\ \A h \in 1..Len(outcomes) :
              ~outcomes[h].raised => outcomes[h].confidence <= outcomes[i].confidence }

\* the least number of a set of numbers
Least(S) == CHOOSE i \in S : \A h \in S : i <= h

\* C20 as stated: resolve_conflict without a strategy returns the result of
\* highest confidence among those of the registered strategies, the first
\* registered one among equals; prefer-local wins every content conflict.
C20_HighestConfidenceFirstRegistered ==
    last.op = "resolve_conflict" =>
        /\ Winners(last.outcomes) # {}
        /\ last.resolution = last.outcomes[Least(Winners(last.outcomes))]

\* C20, amended: the same when some strategy returns a confidence above 0;
\* when none does, the manual fallback is returned (strategy "manual",
\* local content, confidence 0, review required).
C20_HighestConfidenceOrManual ==
    last.op = "resolve_conflict" =>
        IF \E i \in 1..Len(last.outcomes) :
               ~last.outcomes[i].raised /\ last.outcomes[i].confidence > 0
        THEN /\ last.resolution = last.outcomes[Least(Winners(last.outcomes))]
             /\ last.conflict.conflict_type = "content" =>
                    last.resolution.resolution_strategy = "prefer_local"
        ELSE last.resolution = Manual(last.conflict)

\* a content conflict in which prefer-local and prefer-remote tie
C20_Witness ==
    /\ last.op = "resolve_conflict"
    /\ last.conflict.conflict_type = "content"
    /\ last.conflict.local_content # last.conflict.remote_content
    /\ Cardinality(Winners(last.outcomes)) = 2
    /\ last.resolution.resolved_content = last.conflict.local_content

(***************************************************************************)
(* ConflictResolver.resolve_all_conflicts and _apply_resolution.  The tree *)
(* holds the files the conflicts name and their conflict-backup siblings.  *)
(***************************************************************************)
\* the most conflicts handed to one call, and the most calls in a row
MaxConflicts == 2

MaxRuns == 2

\* file_path.with_suffix(f"{file_path.suffix}.conflict_backup")
conflict_backup_path(file_path) ==
    CASE file_path = P_CLAUDE -> <<"CLAUDE.md.conflict_backup">>
      [] file_path = P_ROOT_SETTINGS -> <<"settings.json.conflict_backup">>

\* _apply_resolution on the files fs.tree: shutil.copy2 raises
\* FileNotFoundError when the file of the conflict does not exist; write_text
\* creates or replaces the file.  fs.written lists the copy2 and write_text
\* calls that were made, in order.
apply_resolution(fs, resolution, file_path, backup_enabled) ==
    LET backup_path == conflict_backup_path(file_path)
        copies == backup_enabled /\ backup_path \notin DOMAIN fs.tree
        copied == IF copies
                  THEN [fs EXCEPT !.tree = Put(@, backup_path, fs.tree[file_path]),
                                  !.written = Append(@, [call |-> "copy2",
                                                         path |-> backup_path])]
                  ELSE fs
    IN  IF copies /\ file_path \notin DOMAIN fs.tree
        THEN [raised |-> TRUE, fs |-> fs]
        ELSE [raised |-> FALSE,
              fs |-> [copied EXCEPT
                         !.tree = Put(@, file_path, Text(resolution.resolved_content)),
                         !.written = Append(@, [call |-> "write_text",
                                                path |-> file_path])]]

\* a test that leaves auto_resolve out
HighConfidence_Always(auto_resolve, confidence) == confidence >= 8

\* auto_resolve and resolution.confidence >= 0.8
HighConfidence(auto_resolve, confidence) == auto_resolve /\ confidence >= 8

\* the results dictionary before the loop
NoResolutions(conflicts) ==
    [ total_conflicts |-> Len(conflicts), auto_resolved |-> 0, manual_required |-> 0,
      failed_resolutions |-> 0, resolutions |-> <<>>, files_modified |-> {} ]

\* the loop of resolve_all_conflicts from conflict i on: out is the results
\* dictionary, fs.results the log of add_result
RECURSIVE ResolveEach(_, _, _, _, _, _)
ResolveEach(fs, conflicts, i, auto_resolve, backup_enabled, out) ==
    IF i > Len(conflicts) THEN [fs |-> fs, returned |-> out]
    ELSE LET conflict == conflicts[i]
             resolution == resolve_conflict(conflict)
             appended == [out EXCEPT !.resolutions = Append(@, resolution)]
             applied == apply_resolution(fs, resolution, conflict.file_path,
                                         backup_enabled)
         IN  IF resolution.manual_review_required
             THEN ResolveEach(fs, conflicts, i + 1, auto_resolve, backup_enabled,
                      [appended EXCEPT !.manual_required = @ + 1])
             ELSE IF HighConfidence(auto_resolve, resolution.confidence)
             THEN IF applied.raised
                  THEN ResolveEach([fs EXCEPT !.results = Append(@, "FAILED")],
                           conflicts, i + 1, auto_resolve, backup_enabled,
                           [appended EXCEPT !.failed_resolutions = @ + 1])
                  ELSE ResolveEach(applied.fs, conflicts, i + 1, auto_resolve,
                           backup_enabled,
                           [appended EXCEPT !.auto_resolved = @ + 1,
                                            !.files_modified = @ \cup {conflict.file_path}])
             ELSE ResolveEach(fs, conflicts, i + 1, auto_resolve, backup_enabled,
                      [appended EXCEPT !.manual_required = @ + 1])

\* resolve_all_conflicts(conflicts, auto_resolve)
resolve_all_conflicts(tr, res, conflicts, auto_resolve, backup_enabled) ==
    ResolveEach([tree |-> tr, results |-> res, written |-> <<>>], conflicts, 1,
                auto_resolve, backup_enabled, NoResolutions(conflicts))

\* ConflictInfo
ConflictInfo(conflict_type, file_path, local_content, remote_content) ==
    [ conflict_type |-> conflict_type, file_path |-> file_path,
      local_content |-> local_content, remote_content |-> remote_content ]

\* the conflicts handed to resolve_all_conflicts
Conflicts ==
    { ConflictInfo("content", P_CLAUDE, <<97, 10, 98>>, <<97, 10, 99>>),
      ConflictInfo("section", P_CLAUDE, <<97, 10, 98>>, <<98>>),
      ConflictInfo("section", P_CLAUDE, <<>>, <<98>>),
      ConflictInfo("line", P_CLAUDE, <<97, 10, 98>>, <<97, 10, 99>>),
      ConflictInfo("structure", P_CLAUDE, <<98>>, <<97, 10, 99>>),
      ConflictInfo("json_merge", P_ROOT_SETTINGS, Json_a1, Json_a2b1),
      ConflictInfo("json_merge", P_ROOT_SETTINGS, <<98>>, Json_a1),
      ConflictInfo("json_merge", P_ROOT_SETTINGS, Json_list, Json_list),
      ConflictInfo("json_merge", P_ROOT_SETTINGS, Json_deep, Json_a1) }

ConflictLists ==
    UNION { [1..n -> Conflicts] : n \in 0..MaxConflicts }

\* the files before the first call: each is there or not
ResolveAllTrees ==
    { [p \in S |-> IF p = P_CLAUDE THEN Text(<<97, 10, 98>>) ELSE Text(Json_a1)] :
        S \in SUBSET {P_CLAUDE, P_ROOT_SETTINGS} }

ResolveAllInit ==
    /\ store = EmptyMap
    /\ now = 0
    /\ enabled \in BOOLEAN
    /\ results = <<>>
    /\ calls = 0
    /\ snap = NoSnap
    /\ edits = 0
    /\ tree \in ResolveAllTrees
    /\ last = [op |-> "init"]

\* one call of resolve_all_conflicts; before is the tree as the call found
\* it, written the copy2 and write_text calls it made
ResolveAllConflicts ==
    /\ calls < MaxRuns
    /\ \E conflicts \in ConflictLists, auto_resolve \in BOOLEAN :
        \E r \in {resolve_all_conflicts(tree, results, conflicts, auto_resolve, enabled)} :
          /\ tree' = r.fs.tree
          /\ results' = r.fs.results
          /\ last' = [ op |-> "resolve_all_conflicts", conflicts |-> conflicts,
                       auto_resolve |-> auto_resolve, returned |-> r.returned,
                       written |-> r.fs.written, before |-> tree ]
    /\ calls' = calls + 1
    /\ UNCHANGED <<store, now, enabled, snap, edits>>

ResolveAllNext ==
    \/ ResolveAllConflicts

ResolveAllSpec == ResolveAllInit /\ [][ResolveAllNext]_vars

\* conflict i of the last call got a resolution that may be applied:
\* auto_resolve set, confidence at least 0.8, not flagged for manual review
MayBeApplied(i) ==
    /\ last.auto_resolve
    /\ last.returned.resolutions[i].confidence >= 8
    /\ ~last.returned.resolutions[i].manual_review_required

\* the paths of the tree whose presence or content the last call changed
PathsChanged ==
    { p \in (DOMAIN tree) \cup (DOMAIN last.before) :
        ~(p \in DOMAIN tree /\ p \in DOMAIN last.before /\ tree[p] = last.before[p]) }

\* C21: resolve_all_conflicts writes a resolution only if auto_resolve is
\* set, the confidence is at least 0.8 and the resolution is not flagged for
\* manual review; with auto_resolve false or a confidence below 0.8 nothing
\* is written and the conflict is counted in manual_required; files_modified
\* is exactly the set of files to which a resolution was written.
C21_WritesOnlyHighConfidence ==
    last.op = "resolve_all_conflicts" =>
        LET n == Len(last.conflicts)
            out == last.returned
        IN  /\ Len(out.resolutions) = n
            /\ \A k \in 1..Len(last.written) :
                  \E i \in 1..n :
                      /\ MayBeApplied(i)
                      /\ last.written[k].path \in
                             { last.conflicts[i].file_path,
                               conflict_backup_path(last.conflicts[i].file_path) }
            /\ \A p \in PathsChanged :
                  \E k \in 1..Len(last.written) : last.written[k].path = p
            /\ out.manual_required = Cardinality({i \in 1..n : ~MayBeApplied(i)})
            /\ ~last.auto_resolve => (tree = last.before /\ out.manual_required = n)
            /\ out.files_modified =
                   { last.written[k].path :
                       k \in {h \in 1..Len(last.written) :
                                 last.written[h].call = "write_text"} }
            /\ out.auto_resolved =
                   Cardinality({h \in 1..Len(last.written) :
                                   last.written[h].call = "write_text"})

\* a call with auto_resolve set that wrote a resolution of confidence 0.8
\* to one file and left a conflict of confidence 0.7 on the other unwritten
C21_Witness ==
    /\ last.op = "resolve_all_conflicts"
    /\ last.auto_resolve
    /\ Len(last.conflicts) = 2
    /\ last.returned.resolutions[1].confidence = 8
    /\ last.returned.resolutions[2].confidence = 7
    /\ last.returned.files_modified = {last.conflicts[1].file_path}
    /\ last.conflicts[2].file_path \notin last.returned.files_modified
    /\ last.returned.manual_required = 1
    /\ tree[last.conflicts[1].file_path] =
           Text(last.returned.resolutions[1].resolved_content)
    /\ tree # last.before

\* C22: every ConflictResolution that resolve_conflict returns, with a
\* strategy named or not, and every one a registered strategy returns, has a
\* confidence between 0 and 1 (0 and 10 tenths).
C22_ConfidenceWithinUnitInterval ==
    /\ last.op \in {"resolve_conflict", "resolve_conflict_named"} =>
           (~last.resolution.raised =>
                (last.resolution.confidence >= 0 /\ last.resolution.confidence <= 10))
    /\ last.op = "resolve_conflict" =>
           /\ ~last.resolution.raised
           /\ \A i \in 1..Len(last.outcomes) :
                 ~last.outcomes[i].raised =>
                     (last.outcomes[i].confidence >= 0 /\ last.outcomes[i].confidence <= 10)

\* the section merge strategy, called by name on a conflict whose local
\* side is empty, returned the confidence 1.0
C22_Witness ==
    /\ last.op = "resolve_conflict_named"
    /\ last.strategy = "merge"
    /\ last.conflict.conflict_type = "section"
    /\ ~last.resolution.raised
    /\ last.resolution.resolution_strategy = "section_merge"
    /\ last.resolution.confidence = 10

(***************************************************************************)
(* ConflictResolver.detect_conflicts on Markdown files.                    *)
(***************************************************************************)
\* the most lines of a document
MaxLines == 4

\* the length of the longest prefix of s without whitespace
RECURSIVE NonSpaceRun(_)
NonSpaceRun(s) == IF Len(s) > 0 /\ ~IsSpace(s[1]) THEN 1 + NonSpaceRun(Tail(s)) ELSE 0

\* set(s.split())
RECURSIVE Words(_)
Words(s) ==
    LET t == LStrip(s)
    IN  IF Len(t) = 0 THEN {}
        ELSE {SubSeq(t, 1, NonSpaceRun(t))}
             \cup Words(SubSeq(t, NonSpaceRun(t) + 1, Len(t)))

\* _is_section_auto_resolvable; similarity > 0.8 is taken in tenths
is_section_auto_resolvable(local, remote) ==
    IF Len(Strip(local)) = 0 \/ Len(Strip(remote)) = 0 THEN TRUE
    ELSE LET local_words == Words(ToLower(local))
             remote_words == Words(ToLower(remote))
         IN  10 * Cardinality(local_words \cap remote_words)
                 > 8 * Cardinality(local_words \cup remote_words)

\* the key of the lines before the first header: "header"
Key_header == <<104, 101, 97, 100, 101, 114>>

\* sections[current_section] = '\n'.join(current_content), if there is content
SaveSection(sections, current_section, current_content) ==
    IF Len(current_content) > 0
    THEN Put(sections, current_section, JoinNewline(current_content))
    ELSE sections

\* the loop of _parse_markdown_sections from line i on, and the save after it
RECURSIVE ParseLines(_, _, _, _, _)
ParseLines(lines, i, sections, current_section, current_content) ==
    IF i > Len(lines) THEN SaveSection(sections, current_section, current_content)
    ELSE IF StartsWith(lines[i], <<35>>)
    THEN ParseLines(lines, i + 1,
                    SaveSection(sections, current_section, current_content),
                    Strip(lines[i]), <<>>)
    ELSE ParseLines(lines, i + 1, sections, current_section,
                    Append(current_content, lines[i]))

\* _parse_markdown_sections: the dictionary from section key to body
parse_markdown_sections(content) ==
    ParseLines(splitlines(content), 1, EmptyMap, Key_header, <<>>)

\* sections.get(section, "")
GetSection(sections, section) ==
    IF section \in DOMAIN sections THEN sections[section] ELSE <<>>

\* the ConflictInfo of a section; section stands for its description
SectionConflict(file_path, section, local_section, remote_section) ==
    [ conflict_type |-> "section", file_path |-> file_path, section |-> section,
      local_content |-> local_section, remote_content |-> remote_section,
      auto_resolvable |-> is_section_auto_resolvable(local_section, remote_section) ]

\* _detect_markdown_conflicts: the conflicts, which the code lists in the
\* order of iteration of a set
detect_markdown_conflicts(file_path, local_content, remote_content) ==
    LET local_sections == parse_markdown_sections(local_content)
        remote_sections == parse_markdown_sections(remote_content)
    IN  { SectionConflict(file_path, section, GetSection(local_sections, section),
                          GetSection(remote_sections, section)) :
            section \in { k \in (DOMAIN local_sections) \cup (DOMAIN remote_sections) :
                            GetSection(local_sections, k)
                                # GetSection(remote_sections, k) } }

\* detect_conflicts for a path with the suffix .md; a side is a file that
\* exists with a content or does not exist
detect_conflicts(file_path, local, remote) ==
    IF ~local.exists \/ ~remote.exists THEN {}
    ELSE detect_markdown_conflicts(file_path, local.s, remote.s)

\* the lines of the documents: two headers and two lines of body
MdLines == { <<35, 32, 65>>, <<35, 32, 66>>, <<120>>, <<121>> }

\* the documents: at most MaxLines lines
MdDocs == UNION { [1..n -> MdLines] : n \in 0..MaxLines }

\* the header lines of a document, in order
HeaderLines(lines) == SelectSeq(lines, LAMBDA line : StartsWith(line, <<35>>))

\* a side of the comparison: no file, or a file with these lines
NoFile == [exists |-> FALSE, s |-> <<>>]

File(lines) == [exists |-> TRUE, s |-> JoinNewline(lines)]

DetectInit ==
    /\ IdleInit
    /\ tree = EmptyMap
    /\ last = [op |-> "init"]

\* detect_conflicts(local_path, remote_path) on two CLAUDE.md files that have
\* the same header lines in the same order, or of which one does not exist
DetectConflicts ==
    /\ calls = 0
    /\ \E local_lines \in MdDocs :
        \E remote_lines \in { r \in MdDocs : HeaderLines(r) = HeaderLines(local_lines) } :
        \E local \in {NoFile, File(local_lines)}, remote \in {NoFile, File(remote_lines)} :
          last' = [ op |-> "detect_conflicts", local |-> local, remote |-> remote,
                    conflicts |-> detect_conflicts(P_CLAUDE, local, remote) ]
    /\ calls' = 1
    /\ UNCHANGED <<tree, store, now, enabled, results, snap, edits>>

DetectNext ==
    \/ DetectConflicts

DetectSpec == DetectInit /\ [][DetectNext]_vars

\* a document cut at its headers: the lines before the first header, then
\* one segment for each header line with the lines under it
RECURSIVE Segments(_, _, _)
Segments(lines, i, segs) ==
    IF i > Len(lines) THEN segs
    ELSE IF StartsWith(lines[i], <<35>>)
    THEN Segments(lines, i + 1, Append(segs, [header |-> lines[i], body |-> <<>>]))
    ELSE Segments(lines, i + 1,
                  [segs EXCEPT ![Len(segs)].body = Append(@, lines[i])])

SegmentsOf(content) ==
    Segments(splitlines(content), 1, << [header |-> <<>>, body |-> <<>>] >>)

\* the segments whose bodies differ, in two documents with the same headers
\* in the same places; {} when the headers differ
BodiesThatDiffer(local_content, remote_content) ==
    LET l == SegmentsOf(local_content)
        r == SegmentsOf(remote_content)
    IN  IF Len(l) = Len(r) /\ \A k \in 1..Len(l) : l[k].header = r[k].header
        THEN { k \in 1..Len(l) : l[k].body # r[k].body }
        ELSE {}

\* the key of segment k of a document
SectionKey(content, k) ==
    IF k = 1 THEN Key_header ELSE Strip(SegmentsOf(content)[k].header)

\* C23 as stated: for two documents that are identical except for the body
\* of one section, detect_conflicts reports exactly one conflict, of type
\* section, for that section, with the two bodies as its contents; also
\* when a header text occurs more than once.
C23_OneConflictForOneChangedSection ==
    (/\ last.op = "detect_conflicts"
     /\ last.local.exists /\ last.remote.exists
     /\ Cardinality(BodiesThatDiffer(last.local.s, last.remote.s)) = 1)
    => \E k \in BodiesThatDiffer(last.local.s, last.remote.s) :
          last.conflicts =
              { SectionConflict(P_CLAUDE, SectionKey(last.local.s, k),
                    JoinNewline(SegmentsOf(last.local.s)[k].body),
                    JoinNewline(SegmentsOf(last.remote.s)[k].body)) }

(***************************************************************************)
(* UpgradeAssistant._generate_upgrade_steps over more targets.             *)
(***************************************************************************)
\* the numbers of the target versions
StepNumbers == {0, 1, 2, 10}

\* the targets: versions with and without a pre-release tag, a version
\* after a blank, and a text that is no version
StepTargets ==
    { VersionStr(VersionOf(ma, mi, pa, pre, <<>>)) :
        ma \in StepNumbers, mi \in StepNumbers, pa \in StepNumbers,
        pre \in {<<>>, Str_alpha} }
        \cup { <<32>> \o Str_2_0_0, Str_bad }

StepsInit ==
    /\ IdleInit
    /\ tree = EmptyMap
    /\ last = [op |-> "init"]

\* _generate_upgrade_steps(current_version, target_version), as perform_upgrade
\* calls it
GenerateUpgradeSteps ==
    /\ calls = 0
    /\ \E target_version \in StepTargets :
          last' = [ op |-> "generate_upgrade_steps", target |-> target_version,
                    steps |-> generate_upgrade_steps(target_version) ]
    /\ calls' = 1
    /\ UNCHANGED <<tree, store, now, enabled, results, snap, edits>>

StepsNext ==
    \/ GenerateUpgradeSteps

StepsSpec == StepsInit /\ [][StepsNext]_vars

\* the step list has a step with this description
HasStep(steps, description) ==
    \E i \in 1..Len(steps) : steps[i].description = description

\* C24 as stated: for every valid target the step list starts with the
\* version-marker step and the metadata step, and holds the persona step iff
\* parse(target) >= 1.1.0 and the security step iff parse(target) >= 1.2.0
\* in the order of versions.
C24_FeatureStepsFollowVersionOrder ==
    (last.op = "generate_upgrade_steps" /\ parse_version(last.target).ok) =>
        /\ Len(last.steps) >= 2
        /\ last.steps[1] = Step("Update version metadata", "create", P_VERSION, last.target)
        /\ last.steps[2] = Step("Update configuration metadata", "modify", P_METADATA, <<>>)
        /\ HasStep(last.steps, "Add persona support to configuration")
               <=> Version_ge(parse_version(last.target), VersionOf(1, 1, 0, <<>>, <<>>))
        /\ HasStep(last.steps, "Enhance security settings")
               <=> Version_ge(parse_version(last.target), VersionOf(1, 2, 0, <<>>, <<>>))

\* C25 as stated: after a call of resolve_all_conflicts that applied
\* resolutions to a file, with backups enabled, the conflict-backup sibling
\* of the file exists and holds the content the file had when that call
\* began, whether the call applied one resolution or several to the file
\* and whether or not an earlier call had modified the file.
C25_SiblingHoldsContentBeforeRun ==
    (last.op = "resolve_all_conflicts" /\ enabled) =>
        \A file_path \in last.returned.files_modified :
            /\ file_path \in DOMAIN last.before
            /\ conflict_backup_path(file_path) \in DOMAIN tree
            /\ tree[conflict_backup_path(file_path)] = last.before[file_path]

\* every strategy registered for the type of the conflict raises on it
EveryStrategyFails(conflict) ==
    \A i \in 1..Len(resolution_strategies(conflict.conflict_type)) :
        Call(resolution_strategies(conflict.conflict_type)[i], conflict).raised

\* C26: a conflict on which every registered strategy raises gets the manual
\* resolution from resolve_conflict (strategy "manual", confidence 0, the
\* local content, review required); resolve_all_conflicts counts it in
\* manual_required, not in failed_resolutions, and a file all of whose
\* conflicts are of this kind is not written and gets no sibling.
C26_AllStrategiesFailGivesManual ==
    last.op = "resolve_all_conflicts" =>
        LET n == Len(last.conflicts)
            failing == { i \in 1..n : EveryStrategyFails(last.conflicts[i]) }
        IN  /\ Len(last.returned.resolutions) = n
            /\ \A i \in failing :
                  /\ ~last.returned.resolutions[i].raised
                  /\ last.returned.resolutions[i].resolution_strategy = "manual"
                  /\ last.returned.resolutions[i].confidence = 0
                  /\ last.returned.resolutions[i].resolved_content
                         = last.conflicts[i].local_content
                  /\ last.returned.resolutions[i].manual_review_required
            /\ last.returned.manual_required >= Cardinality(failing)
            /\ last.returned.manual_required + last.returned.auto_resolved
                   + last.returned.failed_resolutions = n
            /\ \A i \in failing :
                  (\A h \in 1..n :
                        last.conflicts[h].file_path = last.conflicts[i].file_path
                            => h \in failing)
                  => \A p \in { last.conflicts[i].file_path,
                                conflict_backup_path(last.conflicts[i].file_path) } :
                        /\ p \notin last.returned.files_modified
                        /\ p \notin PathsChanged
                        /\ \A k \in 1..Len(last.written) : last.written[k].path # p

\* a call with auto_resolve set that applied a resolution to CLAUDE.md and
\* left settings.json alone, whose only conflict made both JSON strategies
\* raise
C26_Witness ==
    /\ last.op = "resolve_all_conflicts"
    /\ last.auto_resolve
    /\ Len(last.conflicts) = 2
    /\ EveryStrategyFails(last.conflicts[1])
    /\ last.conflicts[1].file_path = P_ROOT_SETTINGS
    /\ last.returned.resolutions[1].resolution_strategy = "manual"
    /\ last.returned.manual_required = 1
    /\ last.returned.files_modified = {P_CLAUDE}
    /\ P_ROOT_SETTINGS \in DOMAIN tree
    /\ tree[P_ROOT_SETTINGS] = last.before[P_ROOT_SETTINGS]

\* C27 as stated: perform_upgrade with a target that is not a valid version
\* string returns FAILED and leaves the tree as it was: every file holds the
\* content it had before the call and detect_current_version returns what it
\* returned before the call.
C27_InvalidTargetChangesNothing ==
    [][ (CallOf("perform_upgrade") /\ ~parse_version(last'.target).ok)
        => /\ last'.status = "FAILED"
           /\ tree' = tree
           /\ detect_current_version(tree') = detect_current_version(tree) ]_vars

\* C28 as stated: whenever perform_upgrade returns SUCCESS, the version
\* detected after the call is greater than or equal to the version detected
\* before it; a target below the current version is not applied.
C28_SuccessNeverLowersVersion ==
    [][ ( /\ CallOf("perform_upgrade")
          /\ last'.status = "SUCCESS"
          /\ detect_current_version(tree).ok )
        => /\ detect_current_version(tree').ok
           /\ Version_ge(detect_current_version(tree'), detect_current_version(tree)) ]_vars

\* C29 as stated: an import_backup that fails (raises) leaves the backup
\* store as it was: no archive is added and none that was there is
\* overwritten or removed, also when the requested name is the name of a
\* backup of the store.
C29_FailedImportLeavesStore ==
    [][ (CallOf("import_backup") /\ last'.status = "RAISED") => store' = store ]_vars

\* the files restore_backup extracted in the last call
RestoredMembers(call) == { call.extracted[i][1] : i \in 1..Len(call.extracted) }

\* C30 as stated: a successful restore_backup changes only files that are
\* members of the restored archive: every other file of the tree and every
\* archive the store held has the content it had before the call, and
\* nothing is added but the safety backup archive and files recreated from
\* the archive.
C30_RestoreChangesOnlyMembers ==
    [][ (CallOf("restore_backup") /\ last'.status = "SUCCESS")
        => /\ \A p \in (DOMAIN tree) \ RestoredMembers(last') :
                 p \in DOMAIN tree' /\ tree'[p] = tree[p]
           /\ (DOMAIN tree') \ (DOMAIN tree) \subseteq RestoredMembers(last')
           /\ \A n \in DOMAIN store : n \in DOMAIN store' /\ store'[n] = store[n]
           /\ (DOMAIN store') \ (DOMAIN store) \subseteq {last'.safety} ]_vars

====
